---- MODULE Spec2Model ----
(***************************************************************************)
(* A model of the video download bot (src/bot.py, src/database.py,         *)
(* src/handlers/download_handler.py, src/handlers/settings_handler.py).    *)
(*                                                                         *)
(* The specifications of the module:                                       *)
(*   RetrySpec     retry_with_backoff applied to a scripted function       *)
(*   Spec          the chat handlers of the bot, as asyncio tasks that     *)
(*                 interleave at their suspension points                   *)
(*   SettingsSpec  the help and settings callbacks                         *)
(*   StrangerSpec  every handler dispatched for a user not whitelisted     *)
(*   ProgressSpec  the progress updates of the downloads of two users      *)
(***************************************************************************)
EXTENDS Integers, Sequences, FiniteSets, TLC

\* ------------------------------------------------------------------ bounds
MaxAttempts == 3        \* largest max_attempts retry_with_backoff is given
MaxInitialDelay == 3    \* largest initial_delay (seconds)
MaxDelayCap == 4        \* largest max_delay (seconds)
MaxSessions == 2        \* URLs accepted by process_download in one run
MaxTasks == 2           \* handler invocations suspended at an await at one time
MaxFailures == 1        \* failed calls of the collaborators in one run
MaxWork == 2            \* accepted URLs and failed calls together in one run
MaxHookCalls == 2       \* calls of the progress hook during one download
MaxProgress == 4        \* progress updates of one user suspended at one time

VARIABLES
    \* ---- retry_with_backoff (download_handler.py 95-141)
    rb_func,            \* the wrapped function: its i-th invocation yields rb_func[i]
    rb_max_attempts,    \* argument max_attempts
    rb_initial_delay,   \* argument initial_delay
    rb_max_delay,       \* argument max_delay
    rb_pc,              \* "loop", "sleep", "returned", "raised"
    rb_attempt,         \* loop variable attempt
    rb_delay,           \* local delay
    rb_last_error,      \* local last_error
    rb_calls,           \* number of invocations of func so far
    rb_sleeps,          \* the delays slept so far, in order
    rb_result,          \* the value returned or the error raised
    \* ---- aiogram FSM storage, per user (bot.py 32-39)
    fsm_state,          \* state.get_state(): "None" is idle
    fsm_data,           \* state.get_data(): the session data
    \* ---- Database (database.py)
    db_users,           \* users.is_whitelisted per user id: "absent", "no", "yes"
    db_preset,          \* settings row 'encoding_preset' per user
    db_pending,         \* settings row 'pending_url' per user
    \* ---- module state of download_handler.py
    dl_sem,             \* _download_semaphores[u] is held
    up_sem,             \* _upload_semaphores[u] is held
    \* ---- file system
    dirs,               \* the working directories that exist (named by session)
    cleaners,           \* directories a cleanup thread was started for and has not run yet
    \* ---- the event loop
    tasks,              \* the handler invocations suspended at an await
    nsess,              \* number of URLs accepted by process_download so far
    sess,               \* per session: what the user got and how it ended
    nfail,              \* calls of the chat transport, extractor and transcoder that failed so far
    reply,              \* the direct response to the inbound event just dispatched
    \* ---- update_download_progress (download_handler.py 574-591)
    size_shown,         \* hasattr(update_download_progress, '_size_shown')
    pg_edits,           \* per user: progress updates suspended at message.edit_text
    pg_own,             \* per user: the flag as the user's own downloads alone would leave it
    \* ---- one call of a helper function of download_handler.py on its own
    fn_call,            \* the function called last, "none" before any call
    fn_args,            \* the arguments (and configuration) of the calls
    fn_result           \* what the last call returned or raised

rb_vars == <<rb_func, rb_max_attempts, rb_initial_delay, rb_max_delay, rb_pc,
             rb_attempt, rb_delay, rb_last_error, rb_calls, rb_sleeps, rb_result>>

bot_vars == <<fsm_state, fsm_data, db_users, db_preset, db_pending, dl_sem, up_sem,
              dirs, cleaners, tasks, nsess, sess, nfail, reply>>

pg_vars == <<size_shown, pg_edits, pg_own>>

fn_vars == <<fn_call, fn_args, fn_result>>

vars == <<rb_vars, bot_vars, pg_vars, fn_vars>>

\* ------------------------------------------------------------ small helpers
Min(a, b) == IF a <= b THEN a ELSE b

RECURSIVE Pow2(_)
Pow2(n) == IF n <= 0 THEN 1 ELSE 2 * Pow2(n - 1)

NoError == [kind |-> "none"]

\* An error is known by the keywords its text contains: one of the
\* retryable_keywords, one of the non_retryable_keywords, both or neither.
Errors == [kind : {"error"}, retry_kw : BOOLEAN, term_kw : BOOLEAN]

\* A successful call returns a value.
Values == [kind : {"ok"}, val : {"v1", "v2"}]

Outcomes == Values \cup Errors

\* ----------------------------------------------------- is_retryable_error
is_retryable_error_always(e) == TRUE

is_retryable_error(e) ==
    IF e.retry_kw THEN TRUE
    ELSE IF e.term_kw THEN FALSE
    ELSE TRUE

\* ----------------------------------------------------- retry_with_backoff
\* "if attempt == max_attempts: raise"
IsLastAttempt_early(attempt, max_attempts) == attempt >= max_attempts - 1

IsLastAttempt(attempt, max_attempts) == attempt = max_attempts

\* "delay = min(delay * 2, max_delay)"
NextDelay(delay, max_delay) == Min(delay * 2, max_delay)

\* What one pass through the loop body does with the outcome of func():
\* "return" the value, "raise" the error, or "sleep" before the next attempt.
RetryDecision(outcome, attempt, max_attempts) ==
    IF outcome.kind = "ok" THEN "return"
    ELSE IF ~is_retryable_error(outcome) THEN "raise"
    ELSE IF IsLastAttempt(attempt, max_attempts) THEN "raise"
    ELSE "sleep"

RetryInit ==
    /\ rb_max_attempts \in 0..MaxAttempts
    /\ rb_func \in [1..MaxAttempts -> Outcomes]
    /\ rb_initial_delay \in 1..MaxInitialDelay
    /\ rb_max_delay \in 1..MaxDelayCap
    /\ rb_pc = "loop"
    /\ rb_attempt = 1
    /\ rb_delay = rb_initial_delay
    /\ rb_last_error = NoError
    /\ rb_calls = 0
    /\ rb_sleeps = <<>>
    /\ rb_result = NoError

\* One iteration of "for attempt in range(1, max_attempts + 1)" up to its
\* return, raise or sleep; with the range exhausted before any call
\* (max_attempts <= 0) the trailing "raise last_error" raises with
\* last_error = None, which Python reports as a TypeError.
RetryAttempt ==
    /\ UNCHANGED <<bot_vars, pg_vars, fn_vars>>
    /\ rb_pc = "loop"
    /\ IF rb_attempt > rb_max_attempts
       THEN /\ rb_pc' = "raised"
            /\ rb_result' = IF rb_last_error = NoError
                            THEN [kind |-> "TypeError"] ELSE rb_last_error
            /\ UNCHANGED <<rb_calls, rb_last_error>>
       ELSE LET outcome == rb_func[rb_calls + 1]
                d == RetryDecision(outcome, rb_attempt, rb_max_attempts)
            IN /\ rb_calls' = rb_calls + 1
               /\ rb_last_error' = IF outcome.kind = "ok" THEN rb_last_error ELSE outcome
               /\ rb_pc' = CASE d = "return" -> "returned"
                             [] d = "raise" -> "raised"
                             [] OTHER -> "sleep"
               /\ rb_result' = IF d = "sleep" THEN rb_result ELSE outcome
    /\ UNCHANGED <<rb_func, rb_max_attempts, rb_initial_delay, rb_max_delay,
                   rb_attempt, rb_delay, rb_sleeps>>

\* "await asyncio.sleep(delay); delay = min(delay * 2, max_delay)" and the
\* loop's step to the next attempt.
RetrySleep ==
    /\ UNCHANGED <<bot_vars, pg_vars, fn_vars>>
    /\ rb_pc = "sleep"
    /\ rb_sleeps' = Append(rb_sleeps, rb_delay)
    /\ rb_delay' = NextDelay(rb_delay, rb_max_delay)
    /\ rb_attempt' = rb_attempt + 1
    /\ rb_pc' = "loop"
    /\ UNCHANGED <<rb_func, rb_max_attempts, rb_initial_delay, rb_max_delay,
                   rb_last_error, rb_calls, rb_result>>

\* ====================================================================
\* The bot: configuration, FSM storage, database, chat handlers
\* ====================================================================

\* BotConfig.ALLOWED_USER_ID and one other chat user.
ALLOWED_USER_ID == "allowed"

Users == {ALLOWED_USER_ID, "stranger"}

\* BotConfig.MAX_FILE_SIZE (bytes) with MAX_FILE_SIZE_MB at its default.
MAX_FILE_SIZE == 50 * 1024 * 1024

\* BotConfig.HANDBRAKE_PRESET at its default.
HANDBRAKE_PRESET == "Very Fast 720p30"

\* settings_handler.ENCODING_PRESETS.values()
ENCODING_PRESETS == {"Very Fast 720p30", "Fast 720p30", "Fast 1080p30", "HQ 720p30 Surround"}

\* The preset_* callback data the model sends: two presets of the menu and
\* one that is not on it.
PresetInputs == {"Very Fast 720p30", "Fast 1080p30", "Ultra 4K"}

\* DownloadStates, and "None" for no state (idle).
Idle == "None"

DownloadStates == {"waiting_for_url", "waiting_for_confirmation",
                   "waiting_for_encoding_choice", "downloading", "encoding", "uploading"}

\* An absent value: Python None, a missing dict key, a missing row.
Absent == "absent"

\* state.get_data() after state.clear(). Sessions, their working directory
\* and the file in it are named by the session's number, 0 is a missing key.
EmptyData == [original_file |-> 0, downloaded_file |-> 0, temp_dir |-> 0,
              duration_seconds |-> 0, original_uploaded |-> Absent]

\* The response to an inbound event: who gets it, which kind of update it
\* answers, and what it says.
NoReply == [user |-> Absent, query |-> "none", text |-> "none"]

Reply(u, query, text) == [user |-> u, query |-> query, text |-> text]

\* A slot of the event loop with no suspended handler.
FreeTask == [pc |-> "free", user |-> Absent, sess |-> 0, file |-> 0, att |-> 0,
             size |-> 0, dur |-> 0, note |-> "none"]

\* What is remembered of a session for the properties: the exit it took, and
\* whether a video reached the user, a failure message reached the user, and
\* a chat-transport call of the session failed.
NoSession == [exit |-> "none", delivered |-> FALSE, notified |-> FALSE, txfail |-> FALSE]

\* The bot at rest after main() has opened the database: the users table
\* holds the whitelisted rows and nothing else.
BotStartRest(whitelisted) ==
    /\ fsm_state = [u \in Users |-> Idle]
    /\ fsm_data = [u \in Users |-> EmptyData]
    /\ db_users = [u \in Users |-> IF u \in whitelisted THEN "yes" ELSE Absent]
    /\ db_preset = [u \in Users |-> Absent]
    /\ db_pending = [u \in Users |-> Absent]
    /\ dl_sem = [u \in Users |-> FALSE]
    /\ up_sem = [u \in Users |-> FALSE]
    /\ dirs = {}
    /\ cleaners = {}
    /\ tasks = [t \in 1..MaxTasks |-> FreeTask]
    /\ nsess = 0
    /\ sess = [s \in 1..MaxSessions |-> NoSession]
    /\ nfail = 0
    /\ reply = NoReply
    /\ size_shown = FALSE
    /\ pg_edits = [u \in Users |-> 0]
    /\ pg_own = [u \in Users |-> FALSE]

\* No helper function has been called on its own.
BotStart(whitelisted) ==
    /\ fn_call = "none"
    /\ fn_args = <<>>
    /\ fn_result = <<>>
    /\ BotStartRest(whitelisted)

\* A fresh database: main() whitelists ALLOWED_USER_ID.
BotInit == BotStart({ALLOWED_USER_ID})

\* --------------------------------------------------------------- Database
\* Database.is_user_whitelisted / check_authorization
check_authorization(u) == db_users[u] = "yes"

add_user_replace(users, u, is_whitelisted) ==
    [users EXCEPT ![u] = IF is_whitelisted THEN "yes" ELSE "no"]

\* Database.add_user: INSERT OR IGNORE
add_user(users, u, is_whitelisted) ==
    IF users[u] = Absent
    THEN [users EXCEPT ![u] = IF is_whitelisted THEN "yes" ELSE "no"]
    ELSE users

\* --------------------------------------------------------------- FSM storage
\* state.clear(): set_state(None) and set_data({})
StateClear(u) ==
    /\ fsm_state' = [fsm_state EXCEPT ![u] = Idle]
    /\ fsm_data' = [fsm_data EXCEPT ![u] = EmptyData]

\* The lowest free slot of the event loop.
HasFreeTask == \E t \in 1..MaxTasks : tasks[t].pc = "free"

NewTask == CHOOSE t \in 1..MaxTasks :
               tasks[t].pc = "free" /\ \A o \in 1..(t - 1) : tasks[o].pc # "free"

\* ------------------------------------------------- handlers with no suspended part
\* start_handler: /start
StartCommand(u) ==
    /\ UNCHANGED <<rb_vars, pg_vars, fn_vars, nfail>>
    /\ reply = NoReply
    /\ IF ~check_authorization(u)
       THEN /\ reply' = Reply(u, "start", "unauthorized")
            /\ UNCHANGED <<fsm_state, fsm_data>>
       ELSE /\ StateClear(u)
            /\ reply' = Reply(u, "start", "menu")
    /\ UNCHANGED <<db_users, db_preset, db_pending, dl_sem, up_sem, dirs, cleaners,
                   tasks, nsess, sess>>

\* back_to_menu_handler: callback back_to_menu
BackToMenu(u) ==
    /\ UNCHANGED <<rb_vars, pg_vars, fn_vars, nfail>>
    /\ reply = NoReply
    /\ IF ~check_authorization(u)
       THEN /\ reply' = Reply(u, "back_to_menu", "unauthorized")
            /\ UNCHANGED <<fsm_state, fsm_data>>
       ELSE /\ StateClear(u)
            /\ reply' = Reply(u, "back_to_menu", "menu")
    /\ UNCHANGED <<db_users, db_preset, db_pending, dl_sem, up_sem, dirs, cleaners,
                   tasks, nsess, sess>>

\* start_download_handler: callback start_download
StartDownload(u) ==
    /\ UNCHANGED <<rb_vars, pg_vars, fn_vars, nfail>>
    /\ reply = NoReply
    /\ IF ~check_authorization(u)
       THEN /\ reply' = Reply(u, "start_download", "unauthorized")
            /\ UNCHANGED fsm_state
       ELSE /\ fsm_state' = [fsm_state EXCEPT ![u] = "waiting_for_url"]
            /\ reply' = Reply(u, "start_download", "ask_url")
    /\ UNCHANGED <<fsm_data, db_users, db_preset, db_pending, dl_sem, up_sem, dirs,
                   cleaners, tasks, nsess, sess>>

\* help_handler and show_settings_handler: callbacks show_help, show_settings
ShowHelpOrSettings(u) ==
    /\ UNCHANGED <<rb_vars, pg_vars, fn_vars, nfail>>
    /\ reply = NoReply
    /\ reply' = IF ~check_authorization(u) THEN Reply(u, "show_info", "unauthorized")
                ELSE Reply(u, "show_info", "info")
    /\ UNCHANGED <<fsm_state, fsm_data, db_users, db_preset, db_pending, dl_sem,
                   up_sem, dirs, cleaners, tasks, nsess, sess>>

\* preset_selection_handler: callback preset_<name>
PresetSelection(u, preset) ==
    /\ UNCHANGED <<rb_vars, pg_vars, fn_vars, nfail>>
    /\ reply = NoReply
    /\ IF preset \notin ENCODING_PRESETS
       THEN /\ reply' = Reply(u, "preset", "invalid_preset")
            /\ UNCHANGED <<db_users, db_preset>>
       ELSE \* Database.set_user_setting: add_user(user_id), then the upsert
            /\ db_users' = add_user(db_users, u, FALSE)
            /\ db_preset' = [db_preset EXCEPT ![u] = preset]
            /\ reply' = Reply(u, "preset", "preset_set")
    /\ UNCHANGED <<fsm_state, fsm_data, db_pending, dl_sem, up_sem, dirs, cleaners,
                   tasks, nsess, sess>>

\* ------------------------------------------------------------ pure helpers
\* The text of a chat message, as far as the handlers look at it: its
\* length, the scheme it starts with ("" for none) and whether a host follows.
URL_MAX_LEN == 2048

TextInputs ==
    {[len |-> 0, scheme |-> "", host |-> FALSE],
     [len |-> URL_MAX_LEN + 1, scheme |-> "https", host |-> TRUE],
     [len |-> URL_MAX_LEN, scheme |-> "https", host |-> TRUE],
     [len |-> URL_MAX_LEN, scheme |-> "http", host |-> FALSE],
     [len |-> URL_MAX_LEN, scheme |-> "", host |-> TRUE],
     [len |-> URL_MAX_LEN, scheme |-> "ftp", host |-> TRUE]}

\* url.startswith(('http://', 'https://'))
StartsWithHttp(text) == text.scheme \in {"http", "https"}

\* validate_url
validate_url_nolen(text) ==
    IF text.len = 0 THEN FALSE
    ELSE IF text.scheme \notin {"http", "https"} THEN FALSE
    ELSE IF ~text.host THEN FALSE
    ELSE TRUE

validate_url(text) ==
    IF text.len = 0 THEN FALSE
    ELSE IF text.len > URL_MAX_LEN THEN FALSE
    ELSE IF text.scheme \notin {"http", "https"} THEN FALSE
    ELSE IF ~text.host THEN FALSE
    ELSE TRUE

\* What the extraction collaborator reports for a probe: it answers, times
\* out or raises; an answer may lack filesize, duration and tbr (0 here).
NoSize == -1

ProbeInfos ==
    [status : {"timeout", "error"}, filesize : {0}, duration : {0}, tbr : {0}]
    \cup [status : {"ok"}, filesize : {0, 10 * 1024 * 1024, 60 * 1024 * 1024},
          duration : {0, 60, 600}, tbr : {0, 8000}]

\* get_file_size: (file_size, duration), NoSize and 0 standing for None
get_file_size(info) ==
    IF info.status # "ok" THEN [size |-> NoSize, duration |-> 0]
    ELSE LET filesize == IF info.filesize # 0 THEN info.filesize
                         ELSE IF info.duration # 0 /\ info.tbr # 0
                              THEN info.duration * info.tbr * 125
                              ELSE NoSize
         IN IF filesize # NoSize /\ info.duration # 0
            THEN [size |-> filesize, duration |-> info.duration]
            ELSE IF info.duration # 0
                 THEN [size |-> NoSize, duration |-> info.duration]
                 ELSE [size |-> NoSize, duration |-> 0]

\* bitrate_map of estimate_encoded_size, in tenths of a Mbps; 2.0 if unknown
Bitrate10(preset) ==
    CASE preset = "Very Fast 720p30" -> 15
      [] preset = "Fast 720p30" -> 20
      [] preset = "Fast 1080p30" -> 30
      [] preset = "HQ 720p30 Surround" -> 25
      [] OTHER -> 20

\* estimate_encoded_size: int(duration * mbps * 1024 * 1024 / 8 * 1.05),
\* which is duration * mbps10 * 13762.56 with the fraction cut off (int()
\* rounds towards zero). The variant before it keeps the result in 30 bits.
estimate_encoded_size_int30(duration_seconds, preset) ==
    LET a == duration_seconds * Bitrate10(preset)
        m == IF a >= 0 THEN a ELSE 0 - a
        v == m * 13762 + (m * 56) \div 100
    IN (IF a >= 0 THEN v ELSE 0 - v) % 1073741824

estimate_encoded_size(duration_seconds, preset) ==
    LET a == duration_seconds * Bitrate10(preset)
        m == IF a >= 0 THEN a ELSE 0 - a
        v == m * 13762 + (m * 56) \div 100
    IN IF a >= 0 THEN v ELSE 0 - v

\* "int((downloaded_size / (1024 * 1024)) / 2.5 * 60)": 24 seconds per MB
DurationFromSize(size) ==
    (size \div (1024 * 1024)) * 24 + ((size % (1024 * 1024)) * 24) \div (1024 * 1024)

\* The sizes of downloaded files: one under MAX_FILE_SIZE, one of exactly
\* that size and one over it.
DownloadSizes == {10 * 1024 * 1024, MAX_FILE_SIZE, 60 * 1024 * 1024}

\* "if downloaded_size <= config.MAX_FILE_SIZE" is taken whatever the size.
IsSmallFile_any(downloaded_size) == TRUE

IsSmallFile(downloaded_size) == downloaded_size <= MAX_FILE_SIZE

\* download_video raised instead of returning a file.
DownloadFailed == NoSize

\* asyncio.wait_for(_download(), timeout) ran out of time.
DownloadTimedOut == -2

\* The exception download_video raises, as "type: message". The timeout is
\* caught inside download_video ("except asyncio.TimeoutError") and raised
\* again as ValueError("Download took too long ..."); a failure of the
\* extractor is re-raised as it is.
TimeoutRaised == "ValueError: Download took too long"
DownloadRaised == "DownloadError: download failed"
download_video_raises(outcome) ==
    IF outcome = DownloadTimedOut THEN TimeoutRaised ELSE DownloadRaised

\* The except clauses of execute_confirmed_download around download_video:
\* "except asyncio.TimeoutError" shows Download Timeout, "except Exception"
\* shows Download Failed.
DownloadNotice(e) ==
    IF e = "TimeoutError" THEN "download_timeout" ELSE "download_failed"

\* What bot.send_video does on one attempt.
UploadSuccesses == {[kind |-> "ok", val |-> "v1"]}

UploadOutcomes == UploadSuccesses \cup Errors

\* max_attempts of both upload calls
UPLOAD_MAX_ATTEMPTS == 3

\* ------------------------------------------------------------ bookkeeping
\* The run has room for one more failed call, for one more accepted URL.
CanFail == nfail < MaxFailures /\ nsess + nfail < MaxWork

CanSubmit == nsess < MaxSessions /\ nsess + nfail < MaxWork

\* The outcomes of a call that may fail: TRUE for success, FALSE for failure.
Chances == IF CanFail THEN BOOLEAN ELSE {TRUE}

Failed(failed) == nfail' = IF failed THEN nfail + 1 ELSE nfail

SetTask(t, r) == tasks' = [tasks EXCEPT ![t] = r]

\* The session s took exit e; delivered, notified and txfail accumulate.
SessNote(s, e, delivered, notified, txfail) ==
    IF s \in 1..MaxSessions
    THEN sess' = [sess EXCEPT ![s] =
                    [exit |-> IF e = "same" THEN @.exit ELSE e,
                     delivered |-> @.delivered \/ delivered,
                     notified |-> @.notified \/ notified,
                     txfail |-> @.txfail \/ txfail]]
    ELSE UNCHANGED sess

\* The cleanup thread started for directory d: "if os.path.isdir(temp_dir):
\* shutil.rmtree(temp_dir)", run by the thread at some later moment.
StartCleanup(d) == IF d \in dirs THEN cleaners \cup {d} ELSE cleaners

CleanupThread(d) ==
    /\ UNCHANGED <<rb_vars, pg_vars, fn_vars, nfail>>
    /\ reply = NoReply
    /\ d \in cleaners
    /\ dirs' = dirs \ {d}
    /\ cleaners' = cleaners \ {d}
    /\ reply' = NoReply
    /\ UNCHANGED <<fsm_state, fsm_data, db_users, db_preset, db_pending, dl_sem,
                   up_sem, tasks, nsess, sess>>

\* -------------------------------------------- url_message_handler, process_download
\* url_message_handler and process_download up to its first await
\* (message.answer of the "Validating URL" status message).
UrlMessage(u, text) ==
    /\ UNCHANGED <<rb_vars, pg_vars, fn_vars, nfail>>
    /\ reply = NoReply
    /\ LET accepted == /\ check_authorization(u)
                       /\ text.len # 0
                       /\ text.len <= URL_MAX_LEN
                       /\ fsm_state[u] \in {Idle, "waiting_for_url"}
                       /\ (fsm_state[u] = "waiting_for_url" \/ StartsWithHttp(text))
                       /\ validate_url(text)
       IN IF accepted
          THEN /\ HasFreeTask
               /\ CanSubmit
               /\ nsess' = nsess + 1
               /\ SetTask(NewTask, [FreeTask EXCEPT !.pc = "pd_status", !.user = u,
                                                    !.sess = nsess + 1])
               /\ reply' = Reply(u, "text", "accepted")
               /\ UNCHANGED <<fsm_state, fsm_data, db_users, db_preset, db_pending,
                              dl_sem, up_sem, dirs, cleaners, sess>>
          ELSE /\ reply' =
                     IF ~check_authorization(u) THEN Reply(u, "text", "unauthorized")
                     ELSE IF text.len = 0 THEN Reply(u, "text", "invalid_input")
                     ELSE IF text.len > URL_MAX_LEN THEN Reply(u, "text", "url_too_long")
                     ELSE IF fsm_state[u] \notin {Idle, "waiting_for_url"}
                          THEN Reply(u, "text", "use_menu")
                     ELSE IF fsm_state[u] = "waiting_for_url" \/ StartsWithHttp(text)
                          THEN Reply(u, "text", "invalid_url")
                     ELSE Reply(u, "text", "ignored")
               /\ UNCHANGED <<fsm_state, fsm_data, db_users, db_preset, db_pending,
                              dl_sem, up_sem, dirs, cleaners, tasks, nsess, sess>>

\* process_download: the status message was sent, or sending it failed
\* ("Failed to send status message", return).
PdStatusSent(t) ==
    /\ UNCHANGED <<rb_vars, pg_vars, fn_vars>>
    /\ reply = NoReply
    /\ tasks[t].pc = "pd_status"
    /\ \E ok \in Chances :
        /\ Failed(~ok)
        /\ IF ok
           THEN /\ SetTask(t, [tasks[t] EXCEPT !.pc = "pd_probe"])
                /\ UNCHANGED sess
           ELSE /\ SetTask(t, FreeTask)
                /\ SessNote(tasks[t].sess, "status_failed", FALSE, FALSE, TRUE)
    /\ reply' = NoReply
    /\ UNCHANGED <<fsm_state, fsm_data, db_users, db_preset, db_pending, dl_sem,
                   up_sem, dirs, cleaners, nsess>>

\* execute_confirmed_download from its entry to its first await: take the
\* user's download semaphore or wait for it; holding it, set the state to
\* downloading, create the working directory and send the status message.
EcdEnter(t, r) ==
    LET u == r.user
        s == r.sess
    IN IF dl_sem[u]
       THEN /\ SetTask(t, [r EXCEPT !.pc = "ecd_wait"])
            /\ UNCHANGED <<fsm_state, dl_sem, dirs>>
       ELSE /\ dl_sem' = [dl_sem EXCEPT ![u] = TRUE]
            /\ fsm_state' = [fsm_state EXCEPT ![u] = "downloading"]
            /\ dirs' = dirs \cup {s}
            /\ SetTask(t, [r EXCEPT !.pc = "ecd_status"])

\* process_download: the three branches on file_size. "if file_size is None"
\* and the final else go to execute_confirmed_download, "elif file_size >
\* config.MAX_FILE_SIZE" goes on to the estimate.
PdBranch_sized(file_size) ==
    IF file_size = NoSize THEN "estimate"
    ELSE IF file_size > MAX_FILE_SIZE THEN "estimate"
    ELSE "download"

PdBranch(file_size) ==
    IF file_size = NoSize THEN "download"
    ELSE IF file_size > MAX_FILE_SIZE THEN "estimate"
    ELSE "download"

\* process_download: get_file_size returned what the extractor's answer info
\* makes it return. The locals file_size and duration stay with the handler
\* while execute_confirmed_download runs; they are not passed to it.
PdProbedWith(t, info) ==
    /\ UNCHANGED <<rb_vars, pg_vars, fn_vars, nfail>>
    /\ reply = NoReply
    /\ tasks[t].pc = "pd_probe"
    /\ LET r == get_file_size(info)
       IN IF PdBranch(r.size) = "estimate"
          THEN /\ SetTask(t, [tasks[t] EXCEPT !.pc = "pd_preset", !.size = r.size,
                                               !.dur = r.duration])
               /\ UNCHANGED <<fsm_state, dl_sem, dirs>>
          ELSE EcdEnter(t, [tasks[t] EXCEPT !.size = r.size, !.dur = r.duration])
    /\ reply' = NoReply
    /\ UNCHANGED <<fsm_data, db_users, db_preset, db_pending, up_sem, cleaners,
                   nsess, sess>>

PdProbed(t) == \E info \in ProbeInfos : PdProbedWith(t, info)

\* process_download, file_size > MAX_FILE_SIZE: the preset was read from the
\* database; download if the estimate fits, else show "Video Likely Too Large".
PdPresetRead(t) ==
    /\ UNCHANGED <<rb_vars, pg_vars, fn_vars, nfail>>
    /\ reply = NoReply
    /\ tasks[t].pc = "pd_preset"
    /\ LET u == tasks[t].user
           preset == IF db_preset[u] # Absent THEN db_preset[u] ELSE HANDBRAKE_PRESET
           estimated_encoded == estimate_encoded_size(tasks[t].dur, preset)
       IN IF estimated_encoded <= MAX_FILE_SIZE
          THEN EcdEnter(t, tasks[t])
          ELSE /\ SetTask(t, [tasks[t] EXCEPT !.pc = "pd_reject"])
               /\ UNCHANGED <<fsm_state, dl_sem, dirs>>
    /\ reply' = NoReply
    /\ UNCHANGED <<fsm_data, db_users, db_preset, db_pending, up_sem, cleaners,
                   nsess, sess>>

\* process_download: the "too large" notice was put into the status message
\* (or the edit failed), then "await state.clear(); return", which enters
\* the finally block: "await status_msg.delete()".
PdRejected(t) ==
    /\ UNCHANGED <<rb_vars, pg_vars, fn_vars>>
    /\ reply = NoReply
    /\ tasks[t].pc = "pd_reject"
    /\ \E ok \in Chances :
        /\ Failed(~ok)
        /\ SessNote(tasks[t].sess, "too_large", FALSE, ok, ~ok)
    /\ StateClear(tasks[t].user)
    /\ SetTask(t, [tasks[t] EXCEPT !.pc = "pd_finally"])
    /\ reply' = NoReply
    /\ UNCHANGED <<db_users, db_preset, db_pending, dl_sem, up_sem, dirs, cleaners,
                   nsess>>

\* The finally block of process_download after the rejection:
\* waiting_for_confirmation is False, so the status message, which holds
\* the notice, is deleted; a failed delete is logged and the message stays.
PdFinally(t) ==
    /\ UNCHANGED <<rb_vars, pg_vars, fn_vars>>
    /\ reply = NoReply
    /\ tasks[t].pc = "pd_finally"
    /\ \E deleted \in Chances :
        /\ Failed(~deleted)
        /\ IF deleted
           THEN SessNote(tasks[t].sess, "too_large_deleted", FALSE, FALSE, FALSE)
           ELSE SessNote(tasks[t].sess, "same", FALSE, FALSE, TRUE)
    /\ SetTask(t, FreeTask)
    /\ reply' = NoReply
    /\ UNCHANGED <<fsm_state, fsm_data, db_users, db_preset, db_pending, dl_sem,
                   up_sem, dirs, cleaners, nsess>>

\* ------------------------------------------------- execute_confirmed_download
\* The waiting handler gets the user's download semaphore.
EcdLockAcquired(t) ==
    /\ UNCHANGED <<rb_vars, pg_vars, fn_vars, nfail>>
    /\ reply = NoReply
    /\ tasks[t].pc = "ecd_wait"
    /\ ~dl_sem[tasks[t].user]
    /\ EcdEnter(t, tasks[t])
    /\ reply' = NoReply
    /\ UNCHANGED <<fsm_data, db_users, db_preset, db_pending, up_sem, cleaners,
                   nsess, sess>>

\* The finally block of execute_confirmed_download, given the local
\* downloaded_file (0 for None) and the session data it reads: the cleanup
\* thread is started only "if temp_dir and downloaded_file" and the data
\* holds neither 'downloaded_file' nor 'original_file'.
EcdFinally(temp_dir, downloaded_file, state_data) ==
    IF /\ temp_dir # 0
       /\ downloaded_file # 0
       /\ state_data.downloaded_file = 0
       /\ state_data.original_file = 0
    THEN StartCleanup(temp_dir)
    ELSE cleaners

EcdLeave_held(t, state_data) ==
    /\ cleaners' = EcdFinally(tasks[t].sess, tasks[t].file, state_data)
    /\ UNCHANGED dl_sem
    /\ SetTask(t, FreeTask)

\* Leaving "async with semaphore": the finally block, then the release; the
\* handler is back in process_download's finally.
EcdLeave(t, state_data) ==
    /\ cleaners' = EcdFinally(tasks[t].sess, tasks[t].file, state_data)
    /\ dl_sem' = [dl_sem EXCEPT ![tasks[t].user] = FALSE]
    /\ SetTask(t, FreeTask)

\* The "Downloading video..." status message was sent, or sending it failed
\* ("Failed to send download status", return).
EcdStatusSent(t) ==
    /\ UNCHANGED <<rb_vars, pg_vars, fn_vars>>
    /\ reply = NoReply
    /\ tasks[t].pc = "ecd_status"
    /\ \E ok \in Chances :
        /\ Failed(~ok)
        /\ IF ok
           THEN /\ SetTask(t, [tasks[t] EXCEPT !.pc = "ecd_download"])
                /\ UNCHANGED <<sess, cleaners, dl_sem>>
           ELSE /\ EcdLeave(t, fsm_data[tasks[t].user])
                /\ SessNote(tasks[t].sess, "ecd_status_failed", FALSE, FALSE, TRUE)
    /\ reply' = NoReply
    /\ UNCHANGED <<fsm_state, fsm_data, db_users, db_preset, db_pending, up_sem,
                   dirs, nsess>>

\* download_video returned a file of some size, or raised (a failure, or its
\* timeout, which it re-raises as ValueError). On success: the size, the
\* duration (from the session data, else from the size), the status message
\* deleted, and the first message of the branch taken is sent.
EcdDownloaded(t) ==
    /\ UNCHANGED <<rb_vars, pg_vars, fn_vars>>
    /\ reply = NoReply
    /\ tasks[t].pc = "ecd_download"
    /\ \E outcome \in (IF CanFail THEN {DownloadFailed, DownloadTimedOut} ELSE {})
                         \cup DownloadSizes :
        /\ Failed(outcome \in {DownloadFailed, DownloadTimedOut})
        /\ IF outcome \in {DownloadFailed, DownloadTimedOut}
           THEN SetTask(t, [tasks[t] EXCEPT !.pc = "ecd_fail_notice", !.size = 0,
                                            !.dur = 0,
                                            !.note = download_video_raises(outcome)])
           ELSE LET stored == fsm_data[tasks[t].user].duration_seconds
                    duration_seconds == IF stored # 0 THEN stored
                                        ELSE DurationFromSize(outcome)
                IN SetTask(t, [tasks[t] EXCEPT
                                 !.pc = IF IsSmallFile(outcome) THEN "uo_msg"
                                        ELSE "ecd_kbd",
                                 !.file = tasks[t].sess,
                                 !.size = outcome,
                                 !.dur = duration_seconds])
    /\ reply' = NoReply
    /\ UNCHANGED <<fsm_state, fsm_data, db_users, db_preset, db_pending, dl_sem,
                   up_sem, dirs, cleaners, nsess, sess>>

\* The notice of the except clause that caught the exception was shown (or
\* the edit failed); return.
EcdFailNoticed(t) ==
    /\ UNCHANGED <<rb_vars, pg_vars, fn_vars>>
    /\ reply = NoReply
    /\ tasks[t].pc = "ecd_fail_notice"
    /\ \E ok \in Chances :
        /\ Failed(~ok)
        /\ SessNote(tasks[t].sess, DownloadNotice(tasks[t].note), FALSE, ok, ~ok)
    /\ EcdLeave(t, fsm_data[tasks[t].user])
    /\ reply' = NoReply
    /\ UNCHANGED <<fsm_state, fsm_data, db_users, db_preset, db_pending, up_sem, dirs, nsess>>

\* Large file: "await message.answer(..., reply_markup=keyboard)". Telegram
\* accepted the message, so the keyboard is with the user, and the handler
\* waits for the response of the call; or the call failed: return.
EcdKeyboardSent(t) ==
    /\ UNCHANGED <<rb_vars, pg_vars, fn_vars>>
    /\ reply = NoReply
    /\ tasks[t].pc = "ecd_kbd"
    /\ \E ok \in Chances :
        /\ Failed(~ok)
        /\ IF ok
           THEN /\ SetTask(t, [tasks[t] EXCEPT !.pc = "ecd_kbd_shown"])
                /\ UNCHANGED <<cleaners, dl_sem, sess>>
           ELSE /\ EcdLeave(t, fsm_data[tasks[t].user])
                /\ SessNote(tasks[t].sess, "keyboard_failed", FALSE, FALSE, TRUE)
    /\ reply' = NoReply
    /\ UNCHANGED <<fsm_state, fsm_data, db_users, db_preset, db_pending, up_sem,
                   dirs, nsess>>

\* Large file, after the keyboard message: the handler resumes, stores the
\* session data, sets the state to waiting_for_encoding_choice and returns.
EcdChoiceStored(t) ==
    /\ UNCHANGED <<rb_vars, pg_vars, fn_vars, nfail>>
    /\ reply = NoReply
    /\ tasks[t].pc = "ecd_kbd_shown"
    /\ LET u == tasks[t].user
           stored == [fsm_data[u] EXCEPT !.downloaded_file = tasks[t].file,
                                         !.temp_dir = tasks[t].sess,
                                         !.duration_seconds = tasks[t].dur,
                                         !.original_uploaded = "false"]
       IN /\ fsm_data' = [fsm_data EXCEPT ![u] = stored]
          /\ fsm_state' = [fsm_state EXCEPT ![u] = "waiting_for_encoding_choice"]
          /\ EcdLeave(t, stored)
          /\ SessNote(tasks[t].sess, "awaiting_choice", FALSE, FALSE, FALSE)
    /\ reply' = NoReply
    /\ UNCHANGED <<db_users, db_preset, db_pending, up_sem, dirs, nsess>>

\* ------------------------------------------ upload_original_and_ask_encoding
\* Take the user's upload semaphore and start the first send_video attempt,
\* or wait for the semaphore.
UploadEnter_nolock(t, send_pc, wait_pc) ==
    /\ up_sem' = [up_sem EXCEPT ![tasks[t].user] = TRUE]
    /\ SetTask(t, [tasks[t] EXCEPT !.pc = send_pc, !.att = 1])

UploadEnter(t, send_pc, wait_pc) ==
    IF up_sem[tasks[t].user]
    THEN /\ SetTask(t, [tasks[t] EXCEPT !.pc = wait_pc])
         /\ UNCHANGED up_sem
    ELSE /\ up_sem' = [up_sem EXCEPT ![tasks[t].user] = TRUE]
         /\ SetTask(t, [tasks[t] EXCEPT !.pc = send_pc, !.att = 1])

\* "Uploading original video..." was sent, or sending it raised (caught by
\* the except that reports "Upload failed").
UoMsgSent(t) ==
    /\ UNCHANGED <<rb_vars, pg_vars, fn_vars>>
    /\ reply = NoReply
    /\ tasks[t].pc = "uo_msg"
    /\ \E ok \in Chances :
        /\ Failed(~ok)
        /\ IF ok
           THEN /\ UploadEnter(t, "uo_send", "uo_wait")
                /\ UNCHANGED sess
           ELSE /\ SetTask(t, [tasks[t] EXCEPT !.pc = "uo_fail_notice"])
                /\ SessNote(tasks[t].sess, "same", FALSE, FALSE, TRUE)
                /\ UNCHANGED up_sem
    /\ reply' = NoReply
    /\ UNCHANGED <<fsm_state, fsm_data, db_users, db_preset, db_pending, dl_sem,
                   dirs, cleaners, nsess>>

UoLockAcquired(t) ==
    /\ UNCHANGED <<rb_vars, pg_vars, fn_vars, nfail>>
    /\ reply = NoReply
    /\ tasks[t].pc = "uo_wait"
    /\ ~up_sem[tasks[t].user]
    /\ UploadEnter(t, "uo_send", "uo_wait")
    /\ reply' = NoReply
    /\ UNCHANGED <<fsm_state, fsm_data, db_users, db_preset, db_pending, dl_sem,
                   dirs, cleaners, nsess, sess>>

\* One send_video attempt of the original under retry_with_backoff, with the
\* backoff sleep that follows a retryable failure. On success the semaphore
\* is released and the "uploading" notice is deleted.
UoSend(t) ==
    /\ UNCHANGED <<rb_vars, pg_vars, fn_vars>>
    /\ reply = NoReply
    /\ tasks[t].pc = "uo_send"
    /\ \E outcome \in (IF CanFail THEN UploadOutcomes ELSE UploadSuccesses) :
        LET d == RetryDecision(outcome, tasks[t].att, UPLOAD_MAX_ATTEMPTS)
        IN /\ Failed(outcome.kind # "ok")
           /\ CASE d = "return" ->
                     /\ up_sem' = [up_sem EXCEPT ![tasks[t].user] = FALSE]
                     /\ SetTask(t, [tasks[t] EXCEPT !.pc = "uo_del", !.att = 0])
                     /\ SessNote(tasks[t].sess, "same", TRUE, FALSE, FALSE)
                [] d = "sleep" ->
                     /\ SetTask(t, [tasks[t] EXCEPT !.att = @ + 1])
                     /\ UNCHANGED <<up_sem, sess>>
                [] OTHER ->
                     /\ up_sem' = [up_sem EXCEPT ![tasks[t].user] = FALSE]
                     /\ SetTask(t, [tasks[t] EXCEPT !.pc = "uo_fail_notice", !.att = 0])
                     /\ UNCHANGED sess
    /\ reply' = NoReply
    /\ UNCHANGED <<fsm_state, fsm_data, db_users, db_preset, db_pending, dl_sem,
                   dirs, cleaners, nsess>>

\* "await upload_msg.delete()" returned: the session data is stored and the
\* quality keyboard is sent. If the delete raised, the same except reports
\* "Upload failed".
UoMsgDeleted(t) ==
    /\ UNCHANGED <<rb_vars, pg_vars, fn_vars>>
    /\ reply = NoReply
    /\ tasks[t].pc = "uo_del"
    /\ LET u == tasks[t].user
       IN \E ok \in Chances :
           /\ Failed(~ok)
           /\ IF ok
              THEN /\ fsm_data' = [fsm_data EXCEPT ![u] =
                                     [@ EXCEPT !.original_file = tasks[t].file,
                                               !.temp_dir = tasks[t].sess,
                                               !.duration_seconds = tasks[t].dur,
                                               !.original_uploaded = "true"]]
                   /\ SetTask(t, [tasks[t] EXCEPT !.pc = "uo_kbd"])
                   /\ UNCHANGED sess
              ELSE /\ SetTask(t, [tasks[t] EXCEPT !.pc = "uo_fail_notice"])
                   /\ SessNote(tasks[t].sess, "same", FALSE, FALSE, TRUE)
                   /\ UNCHANGED fsm_data
    /\ reply' = NoReply
    /\ UNCHANGED <<fsm_state, db_users, db_preset, db_pending, dl_sem, up_sem,
                   dirs, cleaners, nsess>>

\* "await message.answer(..., reply_markup=keyboard)" of
\* upload_original_and_ask_encoding. Telegram accepted the message, so the
\* keyboard is with the user, and the handler waits for the response of the
\* call; or the call failed: the function returns False and
\* execute_confirmed_download returns.
UoKeyboardSent(t) ==
    /\ UNCHANGED <<rb_vars, pg_vars, fn_vars>>
    /\ reply = NoReply
    /\ tasks[t].pc = "uo_kbd"
    /\ \E ok \in Chances :
        /\ Failed(~ok)
        /\ IF ok
           THEN /\ SetTask(t, [tasks[t] EXCEPT !.pc = "uo_kbd_shown"])
                /\ UNCHANGED <<cleaners, dl_sem, sess>>
           ELSE /\ EcdLeave(t, fsm_data[tasks[t].user])
                /\ SessNote(tasks[t].sess, "keyboard_failed", FALSE, FALSE, TRUE)
    /\ reply' = NoReply
    /\ UNCHANGED <<fsm_state, fsm_data, db_users, db_preset, db_pending, up_sem,
                   dirs, nsess>>

\* After the keyboard message: upload_original_and_ask_encoding returns
\* True, execute_confirmed_download sets the state to
\* waiting_for_encoding_choice and returns.
UoChoiceSet(t) ==
    /\ UNCHANGED <<rb_vars, pg_vars, fn_vars, nfail>>
    /\ reply = NoReply
    /\ tasks[t].pc = "uo_kbd_shown"
    /\ fsm_state' = [fsm_state EXCEPT ![tasks[t].user] = "waiting_for_encoding_choice"]
    /\ SessNote(tasks[t].sess, "awaiting_choice", FALSE, FALSE, FALSE)
    /\ EcdLeave(t, fsm_data[tasks[t].user])
    /\ reply' = NoReply
    /\ UNCHANGED <<fsm_data, db_users, db_preset, db_pending, up_sem, dirs, nsess>>

\* "Upload failed" was shown (or sending it failed):
\* upload_original_and_ask_encoding returns False, execute_confirmed_download
\* returns.
UoFailNoticed(t) ==
    /\ UNCHANGED <<rb_vars, pg_vars, fn_vars>>
    /\ reply = NoReply
    /\ tasks[t].pc = "uo_fail_notice"
    /\ \E ok \in Chances :
        /\ Failed(~ok)
        /\ SessNote(tasks[t].sess, "original_upload_failed", FALSE, ok, ~ok)
    /\ EcdLeave(t, fsm_data[tasks[t].user])
    /\ reply' = NoReply
    /\ UNCHANGED <<fsm_state, fsm_data, db_users, db_preset, db_pending, up_sem,
                   dirs, nsess>>

\* ------------------------------------------------- encoding_choice_handler
\* The callback data of the quality keyboard, and one quality not on it.
EncodingInputs == {"encode_skip", "encode_quality:720p", "encode_quality:480p",
                   "encode_quality:360p", "encode_quality:1080p"}

\* "if current_state != DownloadStates.waiting_for_encoding_choice.state"
EncodingStateOk_any(state) == state \in {"waiting_for_encoding_choice", "encoding", Idle}

EncodingStateOk(state) == state = "waiting_for_encoding_choice"

\* encoding_choice_handler up to its first await, callback_query.answer.
EncodingChoice(u, data) ==
    /\ UNCHANGED <<rb_vars, pg_vars, fn_vars, nfail>>
    /\ reply = NoReply
    /\ LET honored == /\ check_authorization(u)
                      /\ EncodingStateOk(fsm_state[u])
                      /\ data # "encode_quality:1080p"
       IN IF honored
          THEN /\ HasFreeTask
               /\ SetTask(NewTask, [FreeTask EXCEPT
                                      !.pc = IF data = "encode_skip" THEN "sk_answer"
                                             ELSE "eq_answer",
                                      !.user = u])
               /\ reply' = Reply(u, "encode", "accepted")
          ELSE /\ reply' = IF ~check_authorization(u) THEN Reply(u, "encode", "unauthorized")
                           ELSE IF ~EncodingStateOk(fsm_state[u])
                                THEN Reply(u, "encode", "invalid_state")
                           ELSE Reply(u, "encode", "invalid_quality")
               /\ UNCHANGED tasks
    /\ UNCHANGED <<fsm_state, fsm_data, db_users, db_preset, db_pending, dl_sem,
                   up_sem, dirs, cleaners, nsess, sess>>

\* encode_skip: "Skipped encoding" was answered; the cleanup thread is
\* started for the data's temp_dir, the state is cleared and the menu sent.
\* If the answer raised, the handler ends there.
SkipAnswered(t) ==
    /\ UNCHANGED <<rb_vars, pg_vars, fn_vars>>
    /\ reply = NoReply
    /\ tasks[t].pc = "sk_answer"
    /\ LET u == tasks[t].user
           temp_dir == fsm_data[u].temp_dir
       IN \E ok \in Chances :
           /\ Failed(~ok)
           /\ IF ok
              THEN /\ cleaners' = IF temp_dir # 0 THEN StartCleanup(temp_dir) ELSE cleaners
                   /\ StateClear(u)
                   /\ SessNote(temp_dir, "skip", FALSE, FALSE, FALSE)
              ELSE UNCHANGED <<cleaners, fsm_state, fsm_data, sess>>
    /\ SetTask(t, FreeTask)
    /\ reply' = NoReply
    /\ UNCHANGED <<db_users, db_preset, db_pending, dl_sem, up_sem, dirs, nsess>>

\* ---------------------------------------------------- handle_encoding_choice
\* The finally block of handle_encoding_choice, given the session data it
\* reads at that moment.
HecFinally(state_data) ==
    IF state_data.temp_dir # 0 /\ state_data.temp_dir \in dirs
    THEN StartCleanup(state_data.temp_dir)
    ELSE cleaners

\* encode_quality:<q>: the callback was answered and the keyboard message
\* deleted; handle_encoding_choice reads the session data and sends
\* "Encoding started", or "State data missing" if the data is not there.
EqAnswered(t) ==
    /\ UNCHANGED <<rb_vars, pg_vars, fn_vars>>
    /\ reply = NoReply
    /\ tasks[t].pc = "eq_answer"
    /\ LET data == fsm_data[tasks[t].user]
           downloaded_file == IF data.downloaded_file # 0 THEN data.downloaded_file
                              ELSE data.original_file
       IN \E ok \in Chances :
           /\ Failed(~ok)
           /\ IF ~ok
              THEN SetTask(t, FreeTask)
              ELSE IF downloaded_file = 0 \/ data.temp_dir = 0
                   THEN SetTask(t, [tasks[t] EXCEPT !.pc = "hec_missing_notice"])
                   ELSE SetTask(t, [tasks[t] EXCEPT !.pc = "hec_status",
                                                    !.sess = data.temp_dir,
                                                    !.file = downloaded_file,
                                                    !.dur = data.duration_seconds])
    /\ reply' = NoReply
    /\ UNCHANGED <<fsm_state, fsm_data, db_users, db_preset, db_pending, dl_sem,
                   up_sem, dirs, cleaners, nsess, sess>>

\* "State data missing" was shown; state.clear(); return.
HecMissingNoticed(t) ==
    /\ UNCHANGED <<rb_vars, pg_vars, fn_vars, nfail>>
    /\ reply = NoReply
    /\ tasks[t].pc = "hec_missing_notice"
    /\ StateClear(tasks[t].user)
    /\ cleaners' = HecFinally(fsm_data'[tasks[t].user])
    /\ SetTask(t, FreeTask)
    /\ reply' = NoReply
    /\ UNCHANGED <<db_users, db_preset, db_pending, dl_sem, up_sem, dirs, nsess, sess>>

\* "Encoding started" was sent: the state becomes encoding, the preset is
\* read and the transcoder is started. If sending failed: return, through
\* the finally block.
HecStatusSent(t) ==
    /\ UNCHANGED <<rb_vars, pg_vars, fn_vars>>
    /\ reply = NoReply
    /\ tasks[t].pc = "hec_status"
    /\ LET u == tasks[t].user
       IN \E ok \in Chances :
           /\ Failed(~ok)
           /\ IF ok
              THEN /\ fsm_state' = [fsm_state EXCEPT ![u] = "encoding"]
                   /\ SetTask(t, [tasks[t] EXCEPT !.pc = "hec_encode"])
                   /\ UNCHANGED <<cleaners, sess>>
              ELSE /\ cleaners' = HecFinally(fsm_data[u])
                   /\ SetTask(t, FreeTask)
                   /\ SessNote(tasks[t].sess, "encode_status_failed", FALSE, FALSE, TRUE)
                   /\ UNCHANGED fsm_state
    /\ reply' = NoReply
    /\ UNCHANGED <<fsm_data, db_users, db_preset, db_pending, dl_sem, up_sem, dirs,
                   nsess>>

\* "MAX_SIZE_WITH_TOLERANCE = int(config.MAX_FILE_SIZE * 1.1)"
MAX_SIZE_WITH_TOLERANCE == (MAX_FILE_SIZE * 11) \div 10

\* "if output_size > MAX_SIZE_WITH_TOLERANCE" is not taken.
WithinTolerance_any(output_size) == TRUE

WithinTolerance(output_size) == ~(output_size > MAX_SIZE_WITH_TOLERANCE)

\* What os.path.getsize finds of the transcoder's output after exit code 0:
\* an empty file, one of exactly the tolerated size, one a byte over it, or
\* no file (NoSize: getsize raises).
EncodeOutputs == {0, MAX_SIZE_WITH_TOLERANCE, MAX_SIZE_WITH_TOLERANCE + 1, NoSize}

\* encode_with_handbrake: the transcoder exited. A non-zero exit code, a
\* timeout or an exception is a failure; with the input file or the output
\* directory gone it can only fail. After exit code 0 the status message is
\* edited to "Encoding complete!".
HecEncoded(t) ==
    /\ UNCHANGED <<rb_vars, pg_vars, fn_vars>>
    /\ reply = NoReply
    /\ tasks[t].pc = "hec_encode"
    /\ \E exit0 \in Chances :
        /\ Failed(~exit0)
        /\ exit0 => (tasks[t].file \in dirs /\ tasks[t].sess \in dirs)
        /\ IF exit0
           THEN SetTask(t, [tasks[t] EXCEPT !.pc = "hec_complete_edit"])
           ELSE SetTask(t, [tasks[t] EXCEPT !.pc = "hec_notice", !.note = "encode_failed"])
    /\ reply' = NoReply
    /\ UNCHANGED <<fsm_state, fsm_data, db_users, db_preset, db_pending, dl_sem,
                   up_sem, dirs, cleaners, nsess, sess>>

\* The "Encoding complete!" edit returned: encode_with_handbrake returns
\* True, the size of the output is read and checked against
\* int(MAX_FILE_SIZE * 1.1), and the status is edited to "Uploading". If the
\* edit raised, encode_with_handbrake returns False.
HecCompleteEdited(t) ==
    /\ UNCHANGED <<rb_vars, pg_vars, fn_vars>>
    /\ reply = NoReply
    /\ tasks[t].pc = "hec_complete_edit"
    /\ \E ok \in Chances :
        IF ~ok
        THEN /\ Failed(TRUE)
             /\ SetTask(t, [tasks[t] EXCEPT !.pc = "hec_notice", !.note = "encode_failed"])
             /\ SessNote(tasks[t].sess, "same", FALSE, FALSE, TRUE)
        ELSE /\ UNCHANGED sess
             /\ \E output \in (IF CanFail THEN EncodeOutputs
                                ELSE {MAX_SIZE_WITH_TOLERANCE}) :
                 /\ Failed(output # MAX_SIZE_WITH_TOLERANCE)
                 /\ IF output = NoSize \/ tasks[t].sess \notin dirs
                    THEN SetTask(t, [tasks[t] EXCEPT !.pc = "hec_notice", !.note = "size_error"])
                    ELSE IF ~WithinTolerance(output)
                    THEN SetTask(t, [tasks[t] EXCEPT !.pc = "hec_notice", !.note = "oversize",
                                                     !.size = output])
                    ELSE SetTask(t, [tasks[t] EXCEPT
                                       !.pc = "hec_up_edit",
                                       !.size = output,
                                       !.note = IF output = 0 THEN "empty_output"
                                                ELSE "none"])
    /\ reply' = NoReply
    /\ UNCHANGED <<fsm_state, fsm_data, db_users, db_preset, db_pending, dl_sem,
                   up_sem, dirs, cleaners, nsess>>

\* The "Uploading" edit returned: the state becomes uploading; if the output
\* file is gone "File Error" is shown, else the upload semaphore is taken.
HecUpEdited(t) ==
    /\ UNCHANGED <<rb_vars, pg_vars, fn_vars, nfail>>
    /\ reply = NoReply
    /\ tasks[t].pc = "hec_up_edit"
    /\ fsm_state' = [fsm_state EXCEPT ![tasks[t].user] = "uploading"]
    /\ IF tasks[t].sess \notin dirs
       THEN /\ SetTask(t, [tasks[t] EXCEPT !.pc = "hec_notice", !.note = "file_error"])
            /\ UNCHANGED up_sem
       ELSE UploadEnter(t, "hec_send", "hec_up_wait")
    /\ reply' = NoReply
    /\ UNCHANGED <<fsm_data, db_users, db_preset, db_pending, dl_sem, dirs, cleaners,
                   nsess, sess>>

HecUpLockAcquired(t) ==
    /\ UNCHANGED <<rb_vars, pg_vars, fn_vars, nfail>>
    /\ reply = NoReply
    /\ tasks[t].pc = "hec_up_wait"
    /\ ~up_sem[tasks[t].user]
    /\ UploadEnter(t, "hec_send", "hec_up_wait")
    /\ reply' = NoReply
    /\ UNCHANGED <<fsm_state, fsm_data, db_users, db_preset, db_pending, dl_sem,
                   dirs, cleaners, nsess, sess>>

\* One send_video attempt of the encoded file under retry_with_backoff, with
\* the backoff sleep that follows a retryable failure.
HecSend(t) ==
    /\ UNCHANGED <<rb_vars, pg_vars, fn_vars>>
    /\ reply = NoReply
    /\ tasks[t].pc = "hec_send"
    /\ \E outcome \in (IF CanFail THEN UploadOutcomes ELSE UploadSuccesses) :
        LET d == RetryDecision(outcome, tasks[t].att, UPLOAD_MAX_ATTEMPTS)
        IN /\ Failed(outcome.kind # "ok")
           /\ CASE d = "return" ->
                     /\ up_sem' = [up_sem EXCEPT ![tasks[t].user] = FALSE]
                     /\ SetTask(t, [tasks[t] EXCEPT !.pc = "hec_done", !.att = 0])
                     /\ SessNote(tasks[t].sess, "same", TRUE, FALSE, FALSE)
                [] d = "sleep" ->
                     /\ SetTask(t, [tasks[t] EXCEPT !.att = @ + 1])
                     /\ UNCHANGED <<up_sem, sess>>
                [] OTHER ->
                     /\ up_sem' = [up_sem EXCEPT ![tasks[t].user] = FALSE]
                     /\ SetTask(t, [tasks[t] EXCEPT !.pc = "hec_notice", !.att = 0,
                                                 !.note = "upload_failed"])
                     /\ UNCHANGED sess
    /\ reply' = NoReply
    /\ UNCHANGED <<fsm_state, fsm_data, db_users, db_preset, db_pending, dl_sem,
                   dirs, cleaners, nsess>>

\* Success: the status message was deleted and "Done!" sent; state.clear();
\* then the finally block, which reads the session data again.
HecDone(t) ==
    /\ UNCHANGED <<rb_vars, pg_vars, fn_vars, nfail>>
    /\ reply = NoReply
    /\ tasks[t].pc = "hec_done"
    /\ StateClear(tasks[t].user)
    /\ cleaners' = HecFinally(fsm_data'[tasks[t].user])
    /\ SessNote(tasks[t].sess, "delivered", FALSE, FALSE, FALSE)
    /\ SetTask(t, FreeTask)
    /\ reply' = NoReply
    /\ UNCHANGED <<db_users, db_preset, db_pending, dl_sem, up_sem, dirs, nsess>>

\* A failure notice of handle_encoding_choice ("Encoding Failed", "Error
\* checking encoded file size", "Encoded File Too Large", "File Error",
\* "Upload Failed") was shown, or the edit failed; state.clear(); return;
\* then the finally block.
HecNoticed(t) ==
    /\ UNCHANGED <<rb_vars, pg_vars, fn_vars>>
    /\ reply = NoReply
    /\ tasks[t].pc = "hec_notice"
    /\ \E ok \in Chances :
        /\ Failed(~ok)
        /\ SessNote(tasks[t].sess, tasks[t].note, FALSE, ok, ~ok)
    /\ StateClear(tasks[t].user)
    /\ cleaners' = HecFinally(fsm_data'[tasks[t].user])
    /\ SetTask(t, FreeTask)
    /\ reply' = NoReply
    /\ UNCHANGED <<db_users, db_preset, db_pending, dl_sem, up_sem, dirs, nsess>>

\* ----------------------------------------------------- confirmation_handler
\* "if current_state != DownloadStates.waiting_for_confirmation.state"
ConfirmationStateOk_any(state) == TRUE

ConfirmationStateOk(state) == state = "waiting_for_confirmation"

\* confirmation_handler: callbacks confirm_yes and confirm_no. Past the state
\* check it reads the pending URL; confirm_yes sends a fresh status message,
\* clears the pending URL and enters execute_confirmed_download; confirm_no
\* clears the pending URL and the state.
Confirmation(u, data) ==
    /\ UNCHANGED <<rb_vars, pg_vars, fn_vars>>
    /\ reply = NoReply
    /\ IF ~check_authorization(u)
       THEN /\ reply' = Reply(u, "confirm", "unauthorized")
            /\ UNCHANGED <<fsm_state, fsm_data, db_users, db_preset, db_pending, dl_sem,
                           up_sem, dirs, cleaners, tasks, nsess, sess, nfail>>
       ELSE IF ~ConfirmationStateOk(fsm_state[u])
       THEN /\ reply' = Reply(u, "confirm", "invalid_state")
            /\ UNCHANGED <<fsm_state, fsm_data, db_users, db_preset, db_pending, dl_sem,
                           up_sem, dirs, cleaners, tasks, nsess, sess, nfail>>
       ELSE IF db_pending[u] \in {Absent, ""}
       THEN /\ reply' = Reply(u, "confirm", "no_pending")
            /\ StateClear(u)
            /\ UNCHANGED <<db_users, db_preset, db_pending, dl_sem, up_sem, dirs,
                           cleaners, tasks, nsess, sess, nfail>>
       ELSE IF data = "confirm_no"
       THEN /\ reply' = Reply(u, "confirm", "cancelled")
            /\ db_pending' = [db_pending EXCEPT ![u] = ""]
            /\ db_users' = add_user(db_users, u, FALSE)
            /\ StateClear(u)
            /\ UNCHANGED <<db_preset, dl_sem, up_sem, dirs, cleaners, tasks, nsess, sess, nfail>>
       ELSE /\ reply' = Reply(u, "confirm", "accepted")
            /\ \E ok \in Chances :
                /\ Failed(~ok)
                /\ IF ~ok
                   THEN UNCHANGED <<fsm_state, db_users, db_pending, dl_sem, dirs, tasks, nsess>>
                   ELSE /\ HasFreeTask
                        /\ CanSubmit
                        /\ nsess' = nsess + 1
                        /\ db_pending' = [db_pending EXCEPT ![u] = ""]
                        /\ db_users' = add_user(db_users, u, FALSE)
                        /\ EcdEnter(NewTask, [FreeTask EXCEPT !.user = u, !.sess = nsess + 1])
            /\ UNCHANGED <<fsm_data, db_preset, up_sem, cleaners, sess>>

\* ------------------------------------------------------------ the event loop
TaskStep(t) ==
    \/ PdStatusSent(t)
    \/ PdProbed(t)
    \/ PdPresetRead(t)
    \/ PdRejected(t)
    \/ PdFinally(t)
    \/ EcdLockAcquired(t)
    \/ EcdStatusSent(t)
    \/ EcdDownloaded(t)
    \/ EcdFailNoticed(t)
    \/ EcdKeyboardSent(t)
    \/ EcdChoiceStored(t)
    \/ UoMsgSent(t)
    \/ UoLockAcquired(t)
    \/ UoSend(t)
    \/ UoMsgDeleted(t)
    \/ UoKeyboardSent(t)
    \/ UoChoiceSet(t)
    \/ UoFailNoticed(t)
    \/ SkipAnswered(t)
    \/ EqAnswered(t)
    \/ HecMissingNoticed(t)
    \/ HecStatusSent(t)
    \/ HecEncoded(t)
    \/ HecCompleteEdited(t)
    \/ HecUpEdited(t)
    \/ HecUpLockAcquired(t)
    \/ HecSend(t)
    \/ HecDone(t)
    \/ HecNoticed(t)

InboundEvent(u) ==
    \/ StartCommand(u)
    \/ BackToMenu(u)
    \/ StartDownload(u)
    \/ \E text \in TextInputs : UrlMessage(u, text)
    \/ \E data \in {"confirm_yes", "confirm_no"} : Confirmation(u, data)
    \/ \E data \in EncodingInputs : EncodingChoice(u, data)

\* The response to the event just dispatched has reached the user; the
\* dispatcher takes up the next piece of work.
ReplyDelivered ==
    /\ UNCHANGED <<rb_vars, pg_vars, fn_vars, nfail>>
    /\ reply # NoReply
    /\ reply' = NoReply
    /\ UNCHANGED <<fsm_state, fsm_data, db_users, db_preset, db_pending, dl_sem,
                   up_sem, dirs, cleaners, tasks, nsess, sess>>

\* The pipeline is driven by the events of the whitelisted user; every
\* handler turns the other users away at its first line.
BotNext ==
    \/ InboundEvent(ALLOWED_USER_ID)
    \/ ReplyDelivered
    \/ \E t \in 1..MaxTasks : TaskStep(t)
    \/ \E d \in 1..MaxSessions : CleanupThread(d)

\* ------------------------------------------------ update_download_progress
\* The dict yt-dlp hands to the progress hook, as far as
\* update_download_progress reads it: 'status' and whether
\* '_total_bytes_estimate' is there.
ProgressData ==
    [status : {"downloading"}, estimate : BOOLEAN]
    \cup [status : {"finished", "error"}, estimate : {FALSE}]

\* The hook calls of one download, in order.
HookCalls == UNION {[1..n -> ProgressData] : n \in 1..MaxHookCalls}

\* update_download_progress run for each hook call in turn, every run up to
\* its first await, starting with the flag as given: a 'downloading' call
\* with an estimate and the flag unset goes on to message.edit_text (and
\* sets the flag only after the edit), a 'finished' call deletes the flag.
\* The result is the flag afterwards and the number of edits started.
RECURSIVE RunHooks(_, _)
RunHooks(flag, events) ==
    IF events = <<>> THEN [flag |-> flag, edits |-> 0]
    ELSE LET data == Head(events)
             after == IF data.status = "finished" THEN FALSE ELSE flag
             rest == RunHooks(after, Tail(events))
             edit == data.status = "downloading" /\ data.estimate /\ ~flag
         IN [flag |-> rest.flag, edits |-> rest.edits + (IF edit THEN 1 ELSE 0)]

\* download_video ran for a whitelisted user u. yt-dlp runs inside the
\* coroutine _download without yielding, so its hook calls only create the
\* update_download_progress tasks; once the download is over the event loop
\* starts them in the order of the calls.
ProgressDownload(u, events) ==
    /\ UNCHANGED <<rb_vars, bot_vars, fn_vars>>
    /\ check_authorization(u)
    /\ LET r == RunHooks(size_shown, events)
       IN /\ pg_edits[u] + r.edits <= MaxProgress
          /\ size_shown' = r.flag
          /\ pg_edits' = [pg_edits EXCEPT ![u] = @ + r.edits]
          /\ pg_own' = [pg_own EXCEPT ![u] = RunHooks(pg_own[u], events).flag]

\* "await message.edit_text(...)" of a suspended progress update returned:
\* "update_download_progress._size_shown = True"; or it raised: "pass".
ProgressEdited(u) ==
    /\ UNCHANGED <<rb_vars, bot_vars, fn_vars>>
    /\ pg_edits[u] > 0
    /\ pg_edits' = [pg_edits EXCEPT ![u] = @ - 1]
    /\ \E ok \in BOOLEAN :
        IF ok
        THEN /\ size_shown' = TRUE
             /\ pg_own' = [pg_own EXCEPT ![u] = TRUE]
        ELSE UNCHANGED <<size_shown, pg_own>>

\* retry_with_backoff not running on its own
RetryIdle ==
    /\ rb_func = <<>>
    /\ rb_max_attempts = 0
    /\ rb_initial_delay = 0
    /\ rb_max_delay = 0
    /\ rb_pc = "idle"
    /\ rb_attempt = 0
    /\ rb_delay = 0
    /\ rb_last_error = NoError
    /\ rb_calls = 0
    /\ rb_sleeps = <<>>
    /\ rb_result = NoError

Init == BotInit /\ RetryIdle

\* The download pipeline: the chat events that drive it and the suspended
\* handlers.
Next == BotNext

Spec == Init /\ [][Next]_vars

\* The menu callbacks that leave the pipeline alone.
SettingsNext ==
    \/ \E u \in Users : ShowHelpOrSettings(u)
    \/ \E u \in Users : \E preset \in PresetInputs : PresetSelection(u, preset)
    \/ ReplyDelivered

SettingsSpec == Init /\ [][SettingsNext]_vars

\* Every registered handler dispatched for the user who is not whitelisted,
\* next to the menu callbacks of all users.
StrangerNext ==
    \/ InboundEvent("stranger")
    \/ \E u \in Users : ShowHelpOrSettings(u)
    \/ \E u \in Users : \E preset \in PresetInputs : PresetSelection(u, preset)
    \/ ReplyDelivered

StrangerSpec == Init /\ [][StrangerNext]_vars

\* The progress updates of the downloads of two whitelisted users. (The
\* users table keeps the rows whitelisted under an earlier ALLOWED_USER_ID:
\* main() only ever adds to it.)
ProgressStart == BotStart(Users) /\ RetryIdle

ProgressNext ==
    \/ \E u \in Users : \E events \in HookCalls : ProgressDownload(u, events)
    \/ \E u \in Users : ProgressEdited(u)

ProgressSpec == ProgressStart /\ [][ProgressNext]_vars

\* The conversation as a confirmation prompt leaves it: the whitelisted user
\* is in waiting_for_confirmation and the 'pending_url' setting holds the URL
\* submitted. (No handler of the repository produces this state, see C13; it
\* is the state confirmation_handler is written for.)
PendingUrl == "https://example.com/v"

ConfirmStart ==
    /\ fn_call = "none"
    /\ fn_args = <<>>
    /\ fn_result = <<>>
    /\ fsm_state = [u \in Users |-> IF u = ALLOWED_USER_ID
                                    THEN "waiting_for_confirmation" ELSE Idle]
    /\ fsm_data = [u \in Users |-> EmptyData]
    /\ db_users = [u \in Users |-> IF u = ALLOWED_USER_ID THEN "yes" ELSE Absent]
    /\ db_preset = [u \in Users |-> Absent]
    /\ db_pending = [u \in Users |-> IF u = ALLOWED_USER_ID THEN PendingUrl ELSE Absent]
    /\ dl_sem = [u \in Users |-> FALSE]
    /\ up_sem = [u \in Users |-> FALSE]
    /\ dirs = {}
    /\ cleaners = {}
    /\ tasks = [t \in 1..MaxTasks |-> FreeTask]
    /\ nsess = 0
    /\ sess = [s \in 1..MaxSessions |-> NoSession]
    /\ nfail = 0
    /\ reply = NoReply
    /\ size_shown = FALSE
    /\ pg_edits = [u \in Users |-> 0]
    /\ pg_own = [u \in Users |-> FALSE]
    /\ RetryIdle

\* The confirmation callbacks and the download they start, next to the
\* commands and buttons that change the conversation state.
ConfirmNext ==
    \/ \E data \in {"confirm_yes", "confirm_no"} : Confirmation(ALLOWED_USER_ID, data)
    \/ StartCommand(ALLOWED_USER_ID)
    \/ StartDownload(ALLOWED_USER_ID)
    \/ ReplyDelivered
    \/ \E t \in 1..MaxTasks : EcdStatusSent(t)
    \/ \E t \in 1..MaxTasks : EcdDownloaded(t)
    \/ \E t \in 1..MaxTasks : EcdFailNoticed(t)
    \/ \E t \in 1..MaxTasks : EcdKeyboardSent(t)
    \/ \E t \in 1..MaxTasks : EcdChoiceStored(t)
    \/ \E d \in 1..MaxSessions : CleanupThread(d)

ConfirmSpec == ConfirmStart /\ [][ConfirmNext]_vars

\* ------------------------------------- the size estimates on their own
\* The resolutions the quality keyboard loops over.
Qualities == {"720p", "480p", "360p"}

\* EST_SIZE_PER_MINUTE in tenths of a MB.
EST_SIZE_PER_MINUTE10 == [q \in Qualities |->
    IF q = "720p" THEN 15 ELSE IF q = "480p" THEN 8 ELSE 4]

\* A size in MB in the unit of the estimates below: 1/6000 MB, so that
\* "duration / 60.0 * size_per_min * 1.1" is the integer
\* duration * size_per_min10 * 11.
MB6000(mb) == mb * 6000

\* A dict is the set of its <<key, value>> items; "key in d" and
\* "d.get(key, default)".
HasKey(dict, key) == \E item \in dict : item[1] = key

DictGet(dict, key, default) ==
    IF HasKey(dict, key) THEN (CHOOSE item \in dict : item[1] = key)[2] ELSE default

\* estimate_encoding_sizes: {} for a missing, zero or negative duration
estimate_encoding_sizes(duration_seconds) ==
    IF duration_seconds <= 0 THEN {}
    ELSE {<<q, duration_seconds * EST_SIZE_PER_MINUTE10[q] * 11>> : q \in Qualities}

\* "MAX_SIZE_MB = 50" of show_encoding_choices_keyboard
MAX_SIZE_MB == 50

\* show_encoding_choices_keyboard: the callback data of the buttons and the
\* estimates shown on them.
show_encoding_choices_keyboard(duration_seconds) ==
    LET estimates == estimate_encoding_sizes(duration_seconds)
        available_options ==
            {q \in Qualities : DictGet(estimates, q, 0) <= MB6000(MAX_SIZE_MB)}
    IN [buttons |-> available_options \cup {"skip"},
        estimates |-> {<<q, DictGet(estimates, q, 0)>> : q \in available_options}]

\* The durations the functions are called with: none, a negative one, and
\* values on both sides of every threshold of the keyboard.
EstimateDurations ==
    {0 - 60, 0, 1, 59, 60, 61, 600, 727, 728, 1363, 1364, 1818, 1819, 2727, 2728,
     3409, 3410, 6818, 6819, 7200}

\* The durations estimate_encoded_size is called with; the largest result,
\* for 3.0 Mbps, is 1,407,909,888 bytes.
EncodedSizeDurations == {d \in EstimateDurations : d <= 3410}

\* The presets estimate_encoded_size is called with: the menu's and one
\* that is not in bitrate_map.
EstimatePresets == ENCODING_PRESETS \cup {"Ultra 4K"}

\* MAX_FILE_SIZE_MB of the environment: the default and a smaller limit.
MaxFileSizeMBs == {20, 50}

EstimateStart ==
    /\ fn_call = "none"
    /\ fn_args \in [preset : EstimatePresets, max_file_size_mb : MaxFileSizeMBs,
                    duration_seconds : {0}]
    /\ fn_result = <<>>
    /\ BotStartRest({ALLOWED_USER_ID})
    /\ RetryIdle

FnFrame == UNCHANGED <<rb_vars, bot_vars, pg_vars>>

\* estimate_encoded_size(duration or 0, preset), as process_download calls it
CallEstimateEncodedSize(duration_seconds) ==
    /\ fn_call' = "estimate_encoded_size"
    /\ fn_args' = [fn_args EXCEPT !.duration_seconds = duration_seconds]
    /\ fn_result' = estimate_encoded_size(duration_seconds, fn_args.preset)
    /\ FnFrame

CallEstimateEncodingSizes(duration_seconds) ==
    /\ fn_call' = "estimate_encoding_sizes"
    /\ fn_args' = [fn_args EXCEPT !.duration_seconds = duration_seconds]
    /\ fn_result' = estimate_encoding_sizes(duration_seconds)
    /\ FnFrame

CallShowKeyboard(duration_seconds) ==
    /\ fn_call' = "show_encoding_choices_keyboard"
    /\ fn_args' = [fn_args EXCEPT !.duration_seconds = duration_seconds]
    /\ fn_result' = show_encoding_choices_keyboard(duration_seconds)
    /\ FnFrame

EstimateNext ==
    \/ \E d \in EncodedSizeDurations : CallEstimateEncodedSize(d)
    \/ \E d \in EstimateDurations : CallEstimateEncodingSizes(d)
    \/ \E d \in EstimateDurations : CallShowKeyboard(d)

EstimateSpec == EstimateStart /\ [][EstimateNext]_vars

\* --------------------------------- the path check of download_video alone
\* A resolved path (os.path.realpath) is the sequence of its components, a
\* component the sequence of its characters. The components the model
\* uses: "t" (the system's temporary directory), "v1" (a working
\* directory made by mkdtemp), "v10" (another one) and "x".
PathNames == {<<"t">>, <<"v", "1">>, <<"v", "1", "0">>, <<"x">>}

\* The base names yt-dlp's prepare_filename returns, without the extension.
BaseNames == {<<"a">>, <<"a", ":">>}

\* The deepest directory a file name is placed in.
MaxPathDepth == 3

\* The path as the string Python holds: "/" before every component.
RECURSIVE PathString(_)
PathString(path) ==
    IF path = <<>> THEN <<>>
    ELSE <<"/">> \o Head(path) \o PathString(Tail(path))

\* str.startswith
startswith(str, prefix) ==
    Len(prefix) <= Len(str) /\ SubSeq(str, 1, Len(prefix)) = prefix

\* sanitize_filename, on the characters of BaseNames: a colon becomes a dash
sanitize_filename(name) ==
    [i \in 1..Len(name) |-> IF name[i] = ":" THEN "-" ELSE name[i]]

\* download_video from "Sanitize the filename" on, for the file name
\* prepare_filename returned (the extension stays as it is): the sanitized
\* path is checked against temp_dir by the prefix of the resolved strings,
\* the file is renamed if the name changed, and the path is returned.
download_video_path(temp_dir, filename) ==
    LET dir_path == SubSeq(filename, 1, Len(filename) - 1)
        file_basename == filename[Len(filename)]
        sanitized_path == Append(dir_path, sanitize_filename(file_basename))
        real_temp == PathString(temp_dir)
        real_sanitized == PathString(sanitized_path)
    IN IF ~startswith(real_sanitized, real_temp)
       THEN [status |-> "error", path |-> <<>>, renamed |-> FALSE]
       ELSE [status |-> "returned", path |-> sanitized_path,
             renamed |-> filename # sanitized_path]

\* The directories a returned file name may lie in.
PathDirs == UNION {[1..n -> PathNames] : n \in 0..MaxPathDepth}

PathStart ==
    /\ fn_call = "none"
    /\ fn_args \in [temp_dir : {<<(<<"t">>), (<<"v", "1">>)>>},
                    filename : {Append(dir, base) : dir \in PathDirs, base \in BaseNames}]
    /\ fn_result = <<>>
    /\ BotStartRest({ALLOWED_USER_ID})
    /\ RetryIdle

\* yt-dlp has returned the file name; download_video checks it.
CallDownloadVideo ==
    /\ fn_call = "none"
    /\ fn_call' = "download_video"
    /\ fn_result' = download_video_path(fn_args.temp_dir, fn_args.filename)
    /\ UNCHANGED fn_args
    /\ UNCHANGED <<rb_vars, bot_vars, pg_vars>>

PathNext == CallDownloadVideo

PathSpec == PathStart /\ [][PathNext]_vars

\* ------------------------------------------------- the Database class alone
\* The keys the bot keeps in the settings table, and the values the model
\* writes ('' is what the handlers store to clear the pending URL).
SettingKeys == {"encoding_preset", "pending_url"}

SettingValues == {"", "Fast 1080p30", PendingUrl}

\* The rows of the settings table with key k, by user.
SettingsOf(k) == IF k = "encoding_preset" THEN db_preset ELSE db_pending

\* Database.get_user_setting / utils.get_user_setting with no default:
\* the value of the row, Absent (None) when there is no row.
get_user_setting(u, k) == SettingsOf(k)[u]

\* "INSERT INTO settings ... ON CONFLICT(user_id, key) DO UPDATE SET value=?"
upsert_all(settings, u, value) == [x \in Users |-> value]

upsert(settings, u, value) == [settings EXCEPT ![u] = value]

\* Database.set_user_setting / utils.set_user_setting: add_user(user_id),
\* then the upsert of the (user_id, key) row.
DbSetSetting(u, k, value) ==
    /\ db_users' = add_user(db_users, u, FALSE)
    /\ IF k = "encoding_preset"
       THEN /\ db_preset' = upsert(db_preset, u, value)
            /\ UNCHANGED db_pending
       ELSE /\ db_pending' = upsert(db_pending, u, value)
            /\ UNCHANGED db_preset
    /\ UNCHANGED <<fsm_state, fsm_data, dl_sem, up_sem, dirs, cleaners, tasks,
                   nsess, sess, nfail, reply>>
    /\ UNCHANGED <<rb_vars, pg_vars, fn_vars>>

\* Database.add_user(user_id, is_whitelisted) called on its own, as main()
\* does for ALLOWED_USER_ID.
DbAddUser(u, is_whitelisted) ==
    /\ db_users' = add_user(db_users, u, is_whitelisted)
    /\ UNCHANGED <<fsm_state, fsm_data, db_preset, db_pending, dl_sem, up_sem,
                   dirs, cleaners, tasks, nsess, sess, nfail, reply>>
    /\ UNCHANGED <<rb_vars, pg_vars, fn_vars>>

\* Database.init() has created the tables; nothing has been written yet.
DbStart == BotStart({}) /\ RetryIdle

DbNext ==
    \/ \E u \in Users : \E k \in SettingKeys : \E value \in SettingValues :
          DbSetSetting(u, k, value)
    \/ \E u \in Users : \E is_whitelisted \in BOOLEAN : DbAddUser(u, is_whitelisted)

DbSpec == DbStart /\ [][DbNext]_vars

\* ------------------------------------- the keyword scan of is_retryable_error
\* An error text is the sequence of its words. The words the model writes
\* texts with: two spellings of a retryable keyword, the words of a
\* two-word retryable keyword and of a two-word terminal keyword, a one-word
\* terminal keyword and a word of no keyword.
ErrorWords == {"Timeout", "timeout", "broken", "pipe", "not", "found", "forbidden",
               "disk"}

\* The longest error text, in words.
MaxWords == 3

\* str.lower() of a word
lower_word(w) == IF w = "Timeout" THEN "timeout" ELSE w

\* "error_str = str(error).lower()"
lower(text) == [i \in 1..Len(text) |-> lower_word(text[i])]

retryable_keywords ==
    {<<"closing", "transport">>, <<"connection", "reset">>, <<"connection", "refused">>,
     <<"timeout">>, <<"timed", "out">>, <<"temporary", "failure">>,
     <<"network", "unreachable">>, <<"no", "address", "associated">>,
     <<"broken", "pipe">>, <<"cannot", "write">>, <<"read", "timeout">>,
     <<"write", "timeout">>, <<"connection", "aborted">>}

non_retryable_keywords ==
    {<<"unauthorized">>, <<"forbidden">>, <<"not", "found">>, <<"permission", "denied">>,
     <<"invalid", "token">>, <<"bad", "request">>, <<"invalid", "file">>}

\* "keyword in error_str"
KeywordIn(keyword, error_str) ==
    \E i \in 1..Len(error_str) :
        /\ i + Len(keyword) - 1 <= Len(error_str)
        /\ SubSeq(error_str, i, i + Len(keyword) - 1) = keyword

\* The two loops over the keyword lists, on the lowered text: what they find.
ScanError_cased(text) ==
    [kind |-> "error",
     retry_kw |-> \E keyword \in retryable_keywords : KeywordIn(keyword, text),
     term_kw |-> \E keyword \in non_retryable_keywords : KeywordIn(keyword, text)]

ScanError(text) ==
    LET error_str == lower(text)
    IN [kind |-> "error",
        retry_kw |-> \E keyword \in retryable_keywords : KeywordIn(keyword, error_str),
        term_kw |-> \E keyword \in non_retryable_keywords : KeywordIn(keyword, error_str)]

ErrorTexts == UNION {[1..n -> ErrorWords] : n \in 0..MaxWords}

ClassifyStart ==
    /\ fn_call = "none"
    /\ fn_args \in [error : ErrorTexts]
    /\ fn_result = <<>>
    /\ BotStartRest({ALLOWED_USER_ID})
    /\ RetryIdle

CallIsRetryableError ==
    /\ fn_call = "none"
    /\ fn_call' = "is_retryable_error"
    /\ fn_result' = is_retryable_error(ScanError(fn_args.error))
    /\ UNCHANGED fn_args
    /\ UNCHANGED <<rb_vars, bot_vars, pg_vars>>

ClassifyNext == CallIsRetryableError

ClassifySpec == ClassifyStart /\ [][ClassifyNext]_vars

RetryNext == RetryAttempt \/ RetrySleep

\* retry_with_backoff called on its own, the bot at rest
RetryStart == RetryInit /\ BotInit

RetrySpec == RetryStart /\ [][RetryNext]_vars

\* ====================================================================
\* Properties of the download pipeline (checked under Spec)
\* ====================================================================

\* The session a suspended handler works on is in one of the stages
\* downloading (download_video), encoding (the transcoder) or uploading
\* (send_video of the original or of the encoded file).
InStage(r) == r.pc \in {"ecd_download", "uo_send", "hec_encode", "hec_send"}

\* C1: for one user, the downloading, encoding and uploading stages of two
\* submissions never overlap: while one submission of the user is in one of
\* these stages, no other submission of the same user is in any of them.
C1_StagesExclusive ==
    \A t1 \in 1..MaxTasks : \A t2 \in 1..MaxTasks :
        (/\ InStage(tasks[t1])
         /\ InStage(tasks[t2])
         /\ tasks[t1].user = tasks[t2].user)
            => tasks[t1].sess = tasks[t2].sess

\* The exits C2 lists: successful delivery, encode failure, over-size
\* result, upload failure, skip. Each is taken in the step that clears the
\* conversation state.
IdleExits == {"delivered", "encode_failed", "oversize", "upload_failed", "skip"}

\* C2: once a session has returned to idle by one of these exits, its
\* working directory is deleted or its background deletion has been started.
C2_DirGoneWhenIdle ==
    \A s \in 1..MaxSessions :
        sess[s].exit \in IdleExits => (s \notin dirs \/ s \in cleaners)

\* A session has ended: its handlers have returned by some exit other than
\* the one that leaves the quality keyboard with the user.
Ended(s) == sess[s].exit \notin {"none", "awaiting_choice"}

\* C3: every session that ends, ends with exactly one of: a video was
\* delivered to the user, a failure message was sent to the user. (Sessions
\* in which a call of the chat transport failed are left out: their
\* messages could not be sent.)
C3_ExactlyOneOutcome ==
    \A s \in 1..MaxSessions :
        (Ended(s) /\ ~sess[s].txfail) => (sess[s].delivered # sess[s].notified)

\* The step is the confirmation_handler dispatched for user u.
ConfirmationStep(u) == \E data \in {"confirm_yes", "confirm_no"} : Confirmation(u, data)

\* C4: a confirmation callback from a whitelisted user in any state other
\* than waiting_for_confirmation is answered with the invalid-state response,
\* starts no download (no handler is suspended, no session is opened, no
\* working directory is created, no semaphore is taken) and leaves the
\* conversation state, the session data and the pending URL unchanged.
C4_ConfirmationRejected ==
    [][\A u \in Users :
          (/\ ConfirmationStep(u)
           /\ check_authorization(u)
           /\ fsm_state[u] # "waiting_for_confirmation")
              => /\ reply' = Reply(u, "confirm", "invalid_state")
                 /\ UNCHANGED <<fsm_state, fsm_data, db_pending, tasks, nsess, dirs,
                                dl_sem>>]_vars

\* A confirmation callback has just been refused while the user's session
\* was at the quality keyboard.
C4_Witness ==
    /\ reply = Reply(ALLOWED_USER_ID, "confirm", "invalid_state")
    /\ fsm_state[ALLOWED_USER_ID] = "waiting_for_encoding_choice"
    /\ nsess = 1

\* The step is the encoding_choice_handler dispatched for user u.
EncodingChoiceStep(u) == \E data \in EncodingInputs : EncodingChoice(u, data)

\* C5: a quality-choice event is honored only in waiting_for_encoding_choice;
\* in every other state a whitelisted user gets the invalid-state response,
\* no transcoding is started (no handler is suspended), no working directory
\* is deleted or scheduled for deletion, and the conversation state and the
\* session data are unchanged.
C5_ChoiceOnlyWhenAwaited ==
    [][\A u \in Users :
          (/\ EncodingChoiceStep(u)
           /\ check_authorization(u)
           /\ fsm_state[u] # "waiting_for_encoding_choice")
              => /\ reply' = Reply(u, "encode", "invalid_state")
                 /\ UNCHANGED <<fsm_state, fsm_data, tasks, dirs, cleaners>>]_vars

\* A quality choice has just been refused while its session was encoding.
C5_Witness ==
    /\ reply = Reply(ALLOWED_USER_ID, "encode", "invalid_state")
    /\ fsm_state[ALLOWED_USER_ID] = "encoding"
    /\ \E t \in 1..MaxTasks : tasks[t].pc = "hec_encode"

\* C6: when download_video fails inside execute_confirmed_download, the user
\* is shown an error message and the conversation state is idle when the
\* handler returns (so the next URL message is accepted).
C6_IdleAfterDownloadFailure ==
    [][\A t \in 1..MaxTasks :
          (tasks[t].pc = "ecd_fail_notice" /\ tasks'[t].pc # "ecd_fail_notice")
              => /\ fsm_state'[tasks[t].user] = Idle
                 /\ sess'[tasks[t].sess].notified \/ sess'[tasks[t].sess].txfail]_vars

\* C7: when download_video fails after the working directory was created,
\* the directory is deleted, or its deletion is started, before
\* execute_confirmed_download finishes.
C7_DirGoneAfterDownloadFailure ==
    \A s \in 1..MaxSessions :
        sess[s].exit = "download_failed" => (s \notin dirs \/ s \in cleaners)

\* The preset process_download estimates with: the user's setting, else the
\* configured default.
PresetOf(u) == IF db_preset[u] # Absent THEN db_preset[u] ELSE HANDBRAKE_PRESET

\* The extractor's answer gives get_file_size a size and a duration, and the
\* estimated post-encode size for that duration is over the delivery limit.
EstimateOver(u, info) ==
    /\ get_file_size(info).size # NoSize
    /\ get_file_size(info).duration # 0
    /\ estimate_encoded_size(get_file_size(info).duration, PresetOf(u)) > MAX_FILE_SIZE

\* The handler is inside execute_confirmed_download, at or before the call
\* of download_video.
EnteredDownload(r) == r.pc \in {"ecd_wait", "ecd_status", "ecd_download"}

\* C11: whenever the probe reports a duration whose estimated post-encode
\* size (duration x preset bitrate, +5%) exceeds the delivery limit,
\* process_download does not go on to the download, whatever the raw source
\* size is: it takes the branch that shows "too large" and resets the state.
C11_RejectByEstimate ==
    [][\A t \in 1..MaxTasks :
          tasks[t].pc = "pd_probe" =>
              \A info \in ProbeInfos :
                  (PdProbedWith(t, info) /\ EstimateOver(tasks[t].user, info))
                      => ~EnteredDownload(tasks'[t])]_vars

\* C12: a probe that times out, fails or returns no size never aborts the
\* flow: process_download goes on to execute_confirmed_download.
C12_NoSizeProceeds ==
    [][\A t \in 1..MaxTasks :
          tasks[t].pc = "pd_probe" =>
              \A info \in ProbeInfos :
                  (PdProbedWith(t, info) /\ get_file_size(info).size = NoSize)
                      => EnteredDownload(tasks'[t])]_vars

\* download_video is running for a URL whose probe gave no size.
C12_Witness ==
    \E t \in 1..MaxTasks : tasks[t].pc = "ecd_download" /\ tasks[t].size = NoSize

\* The conversation of u awaits the user's Yes/No: the state is
\* waiting_for_confirmation and the pending URL is stored.
AwaitsConfirmation(u) ==
    /\ fsm_state[u] = "waiting_for_confirmation"
    /\ db_pending[u] \notin {Absent, ""}

\* C13: there is a probe result for which submitting a URL puts the
\* conversation into waiting_for_confirmation with the pending URL stored:
\* whenever process_download is about to receive the probe's result, some
\* result lets it go on, at once or after reading the preset, to the state
\* that awaits the confirmation.
C13_ConfirmationOffered ==
    \A t \in 1..MaxTasks :
        (tasks[t].pc = "pd_probe" /\ reply = NoReply) =>
            ENABLED (/\ PdProbed(t)
                     /\ \/ AwaitsConfirmation(tasks[t].user)'
                        \/ (ENABLED (/\ PdPresetRead(t)
                                     /\ AwaitsConfirmation(tasks[t].user)'))')

\* C14: when the user picks "skip" at the quality keyboard, the downloaded
\* file has been uploaded to the user, unmodified, by the time the session
\* is back at idle, also when the file was over the direct-delivery limit
\* and no unencoded copy was delivered before.
C14_SkipDelivers ==
    \A s \in 1..MaxSessions : sess[s].exit = "skip" => sess[s].delivered

\* The states of a session in progress.
ActiveStates == {"downloading", "waiting_for_encoding_choice", "encoding", "uploading"}

\* The step is /start, back_to_menu or start_download dispatched for user u.
UnrelatedCommand(u) == StartCommand(u) \/ BackToMenu(u) \/ StartDownload(u)

\* C15: while a session of a user is active, /start, back_to_menu and
\* start_download from that user do not cancel it: the command leaves the
\* conversation state and the stored session data (working directory, file)
\* as they are.
C15_CommandKeepsSession ==
    [][\A u \in Users :
          (UnrelatedCommand(u) /\ fsm_state[u] \in ActiveStates)
              => UNCHANGED <<fsm_state, fsm_data>>]_vars

\* The step is some registered handler dispatched for user u: a command, a
\* text message, a menu, confirmation, quality-choice or preset_* callback.
AnyEvent(u) ==
    \/ InboundEvent(u)
    \/ ShowHelpOrSettings(u)
    \/ \E preset \in PresetInputs : PresetSelection(u, preset)

\* C16: every inbound event from a user who is not whitelisted is rejected:
\* it changes no conversation state, writes no setting and no user row to
\* the database, and starts no probe, download, encode or upload (no handler
\* is suspended, no session opened, no directory created, no semaphore taken).
C16_StrangerRejected ==
    [][\A u \in Users :
          (AnyEvent(u) /\ ~check_authorization(u))
              => UNCHANGED <<fsm_state, fsm_data, db_users, db_preset, db_pending,
                             tasks, nsess, dirs, dl_sem, up_sem>>]_vars

\* C17: a failed chat-transport call that only sends, edits or deletes a
\* status message does not change the outcome of a session: once the
\* transcoder has exited with code 0 the flow does not end as an encoding
\* failure, and once the original video has been uploaded the flow goes on
\* to the quality keyboard.
C17_StatusFailureHarmless ==
    [][\A t \in 1..MaxTasks :
          /\ (tasks[t].pc = "hec_complete_edit" /\ tasks'[t] # tasks[t])
                => ~(tasks'[t].pc = "hec_notice" /\ tasks'[t].note = "encode_failed")
          /\ (tasks[t].pc = "uo_del" /\ tasks'[t] # tasks[t])
                => tasks'[t].pc = "uo_kbd"]_vars

\* A send_video call of the handler, or the backoff between two attempts, is
\* in progress.
UploadInFlight(r) == r.pc \in {"uo_send", "hec_send"}

UploadingEncoded(r) == r.pc \in {"hec_up_edit", "hec_up_wait", "hec_send", "hec_done"}

\* C24: transcoding counts as successful only with exit code 0 and a
\* non-empty output file: an encode that left an empty (0 byte) output is
\* treated as a failure and its output is never uploaded.
C24_EmptyOutputNotUploaded ==
    \A t \in 1..MaxTasks : UploadingEncoded(tasks[t]) => tasks[t].note # "empty_output"

\* C28: the conversation state becomes encoding only from
\* waiting_for_encoding_choice and uploading only from encoding, however the
\* user's events interleave with the suspended pipeline.
C28_StateOrder ==
    [][\A u \in Users :
          /\ (fsm_state'[u] = "encoding" /\ fsm_state[u] # "encoding")
                => fsm_state[u] = "waiting_for_encoding_choice"
          /\ (fsm_state'[u] = "uploading" /\ fsm_state[u] # "uploading")
                => fsm_state[u] = "encoding"]_vars

\* C29: for one user at most one transcoding run is in progress at any
\* time, also when two quality-choice callbacks arrive back to back for the
\* same session.
C29_OneEncodePerUser ==
    \A t1 \in 1..MaxTasks : \A t2 \in 1..MaxTasks :
        (/\ t1 # t2
         /\ tasks[t1].pc = "hec_encode"
         /\ tasks[t2].pc = "hec_encode")
            => tasks[t1].user # tasks[t2].user

\* C30: when the probe reported a duration for the URL, the duration the
\* quality-choice step estimates with is that duration; the duration derived
\* from the downloaded file's size is used only when the probe gave none.
C30_ProbedDurationUsed ==
    [][\A t \in 1..MaxTasks :
          (/\ tasks[t].pc = "ecd_download"
           /\ tasks'[t].pc \in {"uo_msg", "ecd_kbd"}
           /\ tasks[t].dur # 0)
              => tasks'[t].dur = tasks[t].dur]_vars

\* The step is a confirm_yes or confirm_no callback of user u that passed
\* the authorization check, the state check and the pending-URL check.
ValidConfirmation(u) ==
    /\ ConfirmationStep(u)
    /\ check_authorization(u)
    /\ fsm_state[u] = "waiting_for_confirmation"
    /\ db_pending[u] \notin {Absent, ""}

C26_SettingsAreAMap ==
    /\ \A u \in Users : \A k \in SettingKeys : get_user_setting(u, k) = Absent
    /\ [][/\ \A u \in Users : \A k \in SettingKeys : \A value \in SettingValues :
               DbSetSetting(u, k, value)
                   => /\ get_user_setting(u, k)' = value
                      /\ \A u2 \in Users : \A k2 \in SettingKeys :
                            (u2 # u \/ k2 # k)
                                => get_user_setting(u2, k2)' = get_user_setting(u2, k2)
          /\ \A u \in Users : \A k \in SettingKeys :
               get_user_setting(u, k)' # get_user_setting(u, k)
                   => \E value \in SettingValues : DbSetSetting(u, k, value)]_vars

\* One user's pending URL was set and then replaced by '', the same user's
\* preset and the other user's pending URL are set, and the other user's
\* preset was never set.
C26_Witness ==
    /\ get_user_setting(ALLOWED_USER_ID, "pending_url") = ""
    /\ get_user_setting(ALLOWED_USER_ID, "encoding_preset") = "Fast 1080p30"
    /\ get_user_setting("stranger", "pending_url") = PendingUrl
    /\ get_user_setting("stranger", "encoding_preset") = Absent

\* C27 (checked under DbSpec): after add_user(u, is_whitelisted=True) the
\* user u is whitelisted, whatever was written to the database before, a
\* set_user_setting for u included: in every state the database reaches,
\* the users table that add_user(u, True) leaves has u whitelisted.
C27_AddUserWhitelists ==
    \A u \in Users :
        LET after == add_user(db_users, u, TRUE)
        IN after[u] = "yes"

\* BotConfig.MAX_FILE_SIZE, the delivery limit, as the environment of the
\* call sets it, in the unit of the estimates.
DeliveryLimit == MB6000(fn_args.max_file_size_mb)

\* The estimate of resolution q for the duration of the call exceeds the
\* delivery limit (for a duration with no estimates none does).
EstimateExceeds(q) ==
    LET estimates == estimate_encoding_sizes(fn_args.duration_seconds)
    IN HasKey(estimates, q) /\ DictGet(estimates, q, 0) > DeliveryLimit

\* C21 (checked under EstimateSpec): the quality keyboard offers a
\* resolution if and only if its size estimate for the duration does not
\* exceed the delivery limit, it always offers skip, and the offered set is
\* downward closed: with 720p come 480p and 360p, with 480p comes 360p.
C21_KeyboardFilters ==
    fn_call = "show_encoding_choices_keyboard"
        => /\ "skip" \in fn_result.buttons
           /\ \A q \in Qualities : q \in fn_result.buttons <=> ~EstimateExceeds(q)
           /\ "720p" \in fn_result.buttons => "480p" \in fn_result.buttons
           /\ "480p" \in fn_result.buttons => "360p" \in fn_result.buttons

\* C22 (checked under EstimateSpec): for a fixed preset, known or not,
\* estimate_encoded_size does not decrease when the duration grows, and for
\* positive durations no per-resolution estimate of estimate_encoding_sizes
\* decreases when the duration grows.
C22_EstimatesMonotone ==
    [][/\ (/\ fn_call = "estimate_encoded_size"
           /\ fn_call' = "estimate_encoded_size"
           /\ fn_args.duration_seconds <= fn_args'.duration_seconds)
              => fn_result <= fn_result'
       /\ (/\ fn_call = "estimate_encoding_sizes"
           /\ fn_call' = "estimate_encoding_sizes"
           /\ 0 < fn_args.duration_seconds
           /\ fn_args.duration_seconds <= fn_args'.duration_seconds)
              => \A q \in Qualities :
                    DictGet(fn_result, q, 0) <= DictGet(fn_result', q, 0)]_vars

\* estimate_encoded_size has just returned 157,286,400 * 1.05 bytes for ten
\* minutes under a preset that is not in its bitrate map.
C22_Witness ==
    /\ fn_call = "estimate_encoded_size"
    /\ fn_args.preset = "Ultra 4K"
    /\ fn_args.duration_seconds = 600
    /\ fn_result = 165150720

\* The path is the directory itself or a descendant of it.
Inside(path, directory) ==
    Len(path) >= Len(directory) /\ SubSeq(path, 1, Len(directory)) = directory

\* C23 (checked under PathSpec): download_video returns, and renames a file
\* to, only a path that is the working directory or a descendant of it; a
\* file name that resolves elsewhere, a sibling directory whose name starts
\* with the working directory's name included, is rejected with an error.
C23_PathStaysInside ==
    fn_call = "download_video"
        => /\ fn_result.status = "returned" => Inside(fn_result.path, fn_args.temp_dir)
           /\ ~Inside(fn_args.filename, fn_args.temp_dir) => fn_result.status = "error"

\* The step is handle_encoding_choice of handler t leaving its 'Encoded
\* File Too Large' notice.
OversizeNoticed(t) ==
    /\ tasks[t].pc = "hec_notice"
    /\ tasks[t].note = "oversize"
    /\ HecNoticed(t)

\* C31: handle_encoding_choice goes on to upload the encoded file only if
\* its size is at most int(MAX_FILE_SIZE * 1.1); an output larger than that
\* gets the 'encoded file too large' notice, and from the notice the handler
\* returns with the state cleared and without an upload.
C31_OversizeNotUploaded ==
    /\ [](\A t \in 1..MaxTasks :
            /\ UploadingEncoded(tasks[t]) => tasks[t].size <= (MAX_FILE_SIZE * 11) \div 10
            /\ (tasks[t].pc = "hec_notice" /\ tasks[t].size > (MAX_FILE_SIZE * 11) \div 10)
                  => tasks[t].note = "oversize")
    /\ [][\A t \in 1..MaxTasks :
            OversizeNoticed(t)
                => /\ tasks'[t].pc = "free"
                   /\ fsm_state'[tasks[t].user] = Idle
                   /\ fsm_data'[tasks[t].user] = EmptyData
                   /\ UNCHANGED up_sem]_vars

\* An output of exactly the tolerated size is on its way to the upload while
\* an earlier session of the user ended with the too-large notice.
C31_Witness ==
    /\ \E t \in 1..MaxTasks :
          /\ tasks[t].pc = "hec_send"
          /\ tasks[t].size = (MAX_FILE_SIZE * 11) \div 10
    /\ \E s \in 1..MaxSessions : sess[s].exit = "oversize"

\* The handler is in upload_original_and_ask_encoding, up to the end of the
\* send of the unencoded file.
UploadingOriginal(r) == r.pc \in {"uo_msg", "uo_wait", "uo_send", "uo_del"}

C33_NoticeStays ==
    [][\A t \in 1..MaxTasks :
          (/\ tasks[t].pc = "pd_finally"
           /\ tasks'[t].pc = "free"
           /\ sess[tasks[t].sess].notified)
              => sess'[tasks[t].sess].exit # "too_large_deleted"]_vars

\* The quality keyboard of the handler is with the user and the handler has
\* not yet returned from sending it.
KeyboardShown(r) == r.pc \in {"ecd_kbd_shown", "uo_kbd_shown"}

\* C34: by the time the quality keyboard is with the user, the state is
\* already waiting_for_encoding_choice and the session data (the working
\* directory of the session) is already stored, so that a click right after
\* the keyboard appeared is honoured and finds its data.
C34_StateBeforeKeyboard ==
    \A t \in 1..MaxTasks :
        KeyboardShown(tasks[t])
            => /\ fsm_state[tasks[t].user] = "waiting_for_encoding_choice"
               /\ fsm_data[tasks[t].user].temp_dir = tasks[t].sess

\* C35: when the download ran into its timeout, execute_confirmed_download
\* shows the Download Timeout notice, not the general Download Failed one.
C35_TimeoutNotice ==
    [][\A t \in 1..MaxTasks :
          (/\ tasks[t].pc = "ecd_fail_notice"
           /\ tasks[t].note = TimeoutRaised
           /\ tasks'[t].pc # "ecd_fail_notice"
           /\ sess'[tasks[t].sess].notified)
              => sess'[tasks[t].sess].exit = "download_timeout"]_vars

\* The error text mentions a keyword of the set, in any spelling of its
\* letters' case.
Mentions(text, keywords) ==
    \E keyword \in keywords :
        \E i \in 1..Len(text) :
            /\ i + Len(keyword) - 1 <= Len(text)
            /\ \A j \in 1..Len(keyword) :
                  text[i + j - 1] \in {keyword[j], IF keyword[j] = "timeout"
                                                   THEN "Timeout" ELSE keyword[j]}

\* C36: is_retryable_error returns false exactly when the error text has a
\* terminal keyword and no retryable keyword; it returns true when the text
\* has a retryable keyword, also next to a terminal one, and when it has a
\* keyword of neither set.
C36_Classification ==
    fn_call = "is_retryable_error"
        => LET retryable == Mentions(fn_args.error, retryable_keywords)
               terminal == Mentions(fn_args.error, non_retryable_keywords)
           IN /\ fn_result = FALSE <=> (terminal /\ ~retryable)
              /\ retryable => fn_result = TRUE
              /\ (~retryable /\ ~terminal) => fn_result = TRUE

\* A text with a terminal keyword and, in capitals, a retryable one has been
\* classified as retryable.
C36_Witness ==
    /\ fn_call = "is_retryable_error"
    /\ fn_args.error = <<"Timeout", "not", "found">>
    /\ fn_result = TRUE

\* The handler is inside "async with semaphore" of
\* execute_confirmed_download: it holds the user's download lock.
HoldsDownloadLock(r) ==
    r.pc \in {"ecd_status", "ecd_download", "ecd_fail_notice", "ecd_kbd",
              "ecd_kbd_shown", "uo_msg", "uo_wait", "uo_send", "uo_del", "uo_kbd",
              "uo_kbd_shown", "uo_fail_notice"}

C38_WhitelistUnchanged ==
    [][\A u \in Users :
          /\ (db_users[u] # Absent) => db_users'[u] = db_users[u]
          /\ (db_users[u] = Absent) => db_users'[u] \in {Absent, "no"}
          /\ (db_users'[u] = "yes") <=> (db_users[u] = "yes")]_vars

\* The preset callbacks of both users have gone through set_user_setting:
\* the stranger has a row, not whitelisted, and the allowed user, whose row
\* existed, has a preset stored and is whitelisted still.
C38_Witness ==
    /\ db_users["stranger"] = "no"
    /\ db_users[ALLOWED_USER_ID] = "yes"
    /\ db_preset[ALLOWED_USER_ID] # Absent
    /\ db_preset["stranger"] # Absent

\* ====================================================================
\* Properties of retry_with_backoff (checked under RetrySpec)
\* ====================================================================

\* The retry utility has finished (returned or raised).
RetryDone == rb_pc \in {"returned", "raised"}

\* An error whose text holds a terminal keyword and no retryable keyword
\* (authorization, not-found, malformed-file).
IsTerminalError(o) == o.kind = "error" /\ o.term_kw /\ ~o.retry_kw

\* Any other error (transport resets, timeouts, connection failures, unknown).
IsRetryableError(o) == o.kind = "error" /\ ~(o.term_kw /\ ~o.retry_kw)

\* The first k calls of func fail with retryable errors.
FirstFailRetryable(k) == \A i \in 1..k : IsRetryableError(rb_func[i])

\* C8: when func fails k times (k < max_attempts) with retryable errors and
\* then succeeds, retry_with_backoff returns that success value and has
\* invoked func exactly k+1 times (never more, at any point of the run).
C8_FailsThenSucceeds ==
    \A k \in 0..(MaxAttempts - 1) :
        (k < rb_max_attempts /\ FirstFailRetryable(k) /\ rb_func[k + 1].kind = "ok")
            => /\ rb_calls <= k + 1
               /\ RetryDone => /\ rb_pc = "returned"
                               /\ rb_result = rb_func[k + 1]
                               /\ rb_calls = k + 1

\* Two retryable failures, then success, with max_attempts = 3: returned
\* after exactly 3 invocations.
C8_Witness ==
    /\ rb_pc = "returned"
    /\ rb_max_attempts = 3
    /\ FirstFailRetryable(2)
    /\ rb_calls = 3
    /\ rb_result = rb_func[3]

\* C9: a terminal error on attempt j (after j-1 retryable failures) is
\* re-raised after exactly j invocations and j-1 waits; for j = 1 that is one
\* invocation, no delay and no further attempt.
C9_TerminalStops ==
    \A j \in 1..MaxAttempts :
        (j <= rb_max_attempts /\ FirstFailRetryable(j - 1) /\ IsTerminalError(rb_func[j]))
            => /\ rb_calls <= j
               /\ Len(rb_sleeps) <= j - 1
               /\ RetryDone => /\ rb_pc = "raised"
                               /\ rb_result = rb_func[j]
                               /\ rb_calls = j
                               /\ Len(rb_sleeps) = j - 1

\* A terminal error on the first call of a run that was allowed 3 attempts.
C9_Witness ==
    /\ rb_pc = "raised"
    /\ rb_max_attempts = 3
    /\ IsTerminalError(rb_func[1])
    /\ rb_calls = 1
    /\ rb_sleeps = <<>>

C10_BackoffAsCoded ==
    (rb_max_attempts >= 1 /\ FirstFailRetryable(rb_max_attempts) /\ RetryDone)
        => /\ rb_pc = "raised"
           /\ rb_calls = rb_max_attempts
           /\ rb_result = rb_func[rb_max_attempts]
           /\ Len(rb_sleeps) = rb_max_attempts - 1
           /\ \A i \in 1..Len(rb_sleeps) :
                  rb_sleeps[i] = IF i = 1 THEN rb_initial_delay
                                 ELSE Min(rb_initial_delay * Pow2(i - 1), rb_max_delay)

\* ====================================================================
\* Properties of update_download_progress (checked under ProgressSpec)
\* ====================================================================

\* C19: users are independent: the size estimates shown on a user's status
\* message during a download are the ones the user's own downloads
\* determine (pg_own), whatever the downloads of other users did; no flag of
\* one user's session alters what another user is shown.
C19_UsersIndependent ==
    [][\A u \in Users : \A events \in HookCalls :
          ProgressDownload(u, events)
              => pg_edits'[u] - pg_edits[u] = RunHooks(pg_own[u], events).edits]_vars

====
